---- MODULE Spec2Model ----
(***************************************************************************)
(* Actor face dataset builder: the build_dataset orchestrator of           *)
(* src/src/main.py, the ActorVerifier and the DuplicateDetector of         *)
(* src/src/modules/actor_verifier.py and cosine_similarity of              *)
(* src/src/utils/helpers.py.                                                *)
(*                                                                         *)
(* Three specifications share the module:                                  *)
(*   Spec        one build_dataset run, stage by stage;                    *)
(*   SpecVerify  ActorVerifier.set_reference_actor / verify_batch applied  *)
(*               to bounded candidate lists;                               *)
(*   SpecDedup   DuplicateDetector.remove_duplicates applied to bounded    *)
(*               image lists, then applied again to its own output.        *)
(*                                                                         *)
(* Numbers.  A threshold is a fraction <<p, q>> = p/q.  A cosine           *)
(* similarity s >= 0 is kept exactly as the reduced fraction <<n, d>> of   *)
(* its square, s^2 = n/d (the square root of the code is never rounded);   *)
(* a hash similarity is the reduced fraction <<n, d>> = n/d itself.        *)
(***************************************************************************)
EXTENDS Integers, Sequences, FiniteSets, TLC

\* ------------------------------------------------------------------------
\* Bounds of the model
\* ------------------------------------------------------------------------
MaxCandidates == 3   \* longest candidate list given to verify_batch
MaxImages == 3       \* longest image list given to remove_duplicates
MaxRaw == 2          \* raw image files an identity can have
MaxFaces == 2        \* face files one Detect stage writes
MinInterval == 2     \* smallest CHECKPOINT_INTERVAL a run is configured with
MaxUrls == 2         \* image urls one ImageDownloader is asked for

\* ------------------------------------------------------------------------
\* Generic helpers
\* ------------------------------------------------------------------------
None == "None"

RECURSIVE GCD(_, _)
GCD(a, b) == IF b = 0 THEN a ELSE GCD(b, a % b)

Reduce(f) ==
    IF f[1] = 0 THEN <<0, 1>>
    ELSE LET g == GCD(f[1], f[2]) IN <<f[1] \div g, f[2] \div g>>

Range(s) == {s[i] : i \in 1..Len(s)}

NoRepeat(s) == \A i, j \in 1..Len(s) : i # j => s[i] # s[j]

\* all sequences over S of length at most n
RECURSIVE SeqsUpTo(_, _)
SeqsUpTo(S, n) ==
    IF n = 0 THEN {<<>>}
    ELSE LET shorter == SeqsUpTo(S, n - 1)
         IN shorter \cup {Append(s, x) : s \in shorter, x \in S}

\* ------------------------------------------------------------------------
\* config/settings.py
\* ------------------------------------------------------------------------
FACE_SIMILARITY_THRESHOLD == <<21, 50>>   \* 0.42
DUPLICATE_THRESHOLD == <<19, 20>>         \* 0.95
MIN_RAW_IMAGES == 120
TARGET_IMAGES == 50
MAX_FACES_PER_IMAGE == 2
CHECKPOINT_INTERVAL == 10
MAX_RETRIES == 3

\* ------------------------------------------------------------------------
\* helpers.cosine_similarity
\* ------------------------------------------------------------------------
RECURSIVE DotUpTo(_, _, _)
DotUpTo(v1, v2, n) ==
    IF n = 0 THEN 0 ELSE DotUpTo(v1, v2, n - 1) + v1[n] * v2[n]

\* np.dot of two vectors of the same length
Dot(v1, v2) == DotUpTo(v1, v2, Len(v1))

\* the square of np.linalg.norm
Norm2(v) == Dot(v, v)

ZeroScore == <<0, 1>>
OneScore == <<1, 1>>

\* np.dot raises on vectors of different lengths; the empty and zero-norm
\* returns come first
CosineRaises(vec1, vec2) ==
    /\ Len(vec1) # 0 /\ Len(vec2) # 0
    /\ Norm2(vec1) # 0 /\ Norm2(vec2) # 0
    /\ Len(vec1) # Len(vec2)

ClampNever(d) == FALSE

ClampLowAt(d) == d <= 0

\* the similarity as the fraction of its square, clamped to [0, 1].  The
\* code computes it in float32; the fraction is the exact value, so a
\* similarity that equals a threshold here is one the floats make equal too
\* only when both are representable (0.5, 0.0, 1.0)
cosine_similarity(vec1, vec2) ==
    IF Len(vec1) = 0 \/ Len(vec2) = 0 THEN ZeroScore
    ELSE IF Norm2(vec1) = 0 \/ Norm2(vec2) = 0 THEN ZeroScore
    ELSE LET d == Dot(vec1, vec2)
             nn == Norm2(vec1) * Norm2(vec2)
         IN IF ClampLowAt(d) THEN ZeroScore
            ELSE IF d * d >= nn THEN OneScore
            ELSE Reduce(<<d * d, nn>>)

\* similarity >= threshold, a score s (a squared fraction) against t = p/q
ScoreGeq(s, t) == s[1] * t[2] * t[2] >= t[1] * t[1] * s[2]

\* ------------------------------------------------------------------------
\* The face/embedding collaborator.  An embedding is named by a string and
\* Vec gives its vector; the content of a face file is named by a kind, and
\* get_embedding_from_file returns the embedding of that name, or None when
\* no face is found in the file.  Embeddings are compared only through
\* cosine_similarity, which normalises them again, so integer vectors stand
\* for the L2-normalised ones.
\* ------------------------------------------------------------------------
Vec(e) ==
    CASE e = "ref" -> <<1, 0, 0, 0>>
      [] e = "e010" -> <<1, 9, 3, 3>>        \* cosine 0.10 to "ref"
      [] e = "e042" -> <<21, 45, 5, 3>>      \* cosine 0.42 to "ref"
      [] e = "e050" -> <<1, 1, 1, 1>>        \* cosine 0.50 to "ref"
      [] e = "e090" -> <<9, 3, 3, 1>>        \* cosine 0.90 to "ref"
      [] e = "eneg" -> <<-1, 1, 0, 0>>       \* negative cosine to "ref"
      [] e = "ezero" -> <<0, 0, 0, 0>>       \* zero-norm embedding
      [] e = "eshort" -> <<1, 0>>            \* another length: np.dot raises
      [] OTHER -> <<>>                       \* "empty": a vector of length 0

FaceKinds == {"e010", "e042", "e050", "e090", "ezero", "eshort", "noface"}

get_embedding_from_file(kind) == IF kind = "noface" THEN None ELSE kind

\* ------------------------------------------------------------------------
\* ActorVerifier
\* ------------------------------------------------------------------------
NoThreshold == <<0, 0>>   \* threshold=None: no fraction has denominator 0

\* set_reference_actor: the new reference_embedding and the returned flag;
\* extracted is what face_detector.get_reference_embedding gives for the url
set_reference_actor(old, reference_embedding, tmdb_profile_url, extracted) ==
    IF reference_embedding # None
    THEN [reference_embedding |-> reference_embedding, ok |-> TRUE]
    ELSE IF tmdb_profile_url # None /\ extracted # None
    THEN [reference_embedding |-> extracted, ok |-> TRUE]
    ELSE [reference_embedding |-> old, ok |-> FALSE]

IsActorStrict(similarity, threshold) ==
    similarity[1] * threshold[2] * threshold[2]
        > threshold[1] * threshold[1] * similarity[2]

IsActor(similarity, threshold) == ScoreGeq(similarity, threshold)

\* verify_image: <<is_actor, similarity>>
verify_image(reference_embedding, kind, threshold) ==
    IF reference_embedding = None THEN <<FALSE, ZeroScore>>
    ELSE LET t == IF threshold = NoThreshold THEN FACE_SIMILARITY_THRESHOLD
                  ELSE threshold
             embedding == get_embedding_from_file(kind)
         IN IF embedding = None THEN <<FALSE, ZeroScore>>
            ELSE IF CosineRaises(Vec(reference_embedding), Vec(embedding))
            THEN <<FALSE, ZeroScore>>
            ELSE LET similarity == cosine_similarity(Vec(reference_embedding),
                                                     Vec(embedding))
                 IN <<IsActor(similarity, t), similarity>>

AppendValidFirst(valid_images, image_path) == <<image_path>> \o valid_images

AppendValid(valid_images, image_path) == Append(valid_images, image_path)

RECURSIVE VerifyBatchLoop(_, _, _, _, _, _, _)
VerifyBatchLoop(reference_embedding, image_paths, kindOf, threshold, return_scores, i, acc) ==
    IF i > Len(image_paths) THEN acc
    ELSE LET image_path == image_paths[i]
             r == verify_image(reference_embedding, kindOf[image_path], threshold)
             valid == IF r[1] THEN AppendValid(acc.valid_images, image_path)
                      ELSE acc.valid_images
             sc == IF return_scores THEN (image_path :> r[2]) @@ acc.scores
                   ELSE acc.scores
         IN VerifyBatchLoop(reference_embedding, image_paths, kindOf, threshold,
                            return_scores, i + 1,
                            [valid_images |-> valid, scores |-> sc])

\* verify_batch: the accepted paths and the scores dict (keyed by path)
verify_batch(reference_embedding, image_paths, kindOf, threshold, return_scores) ==
    IF reference_embedding = None
    THEN [valid_images |-> <<>>, scores |-> <<>>]
    ELSE VerifyBatchLoop(reference_embedding, image_paths, kindOf, threshold,
                         return_scores, 1,
                         [valid_images |-> <<>>, scores |-> <<>>])

\* ------------------------------------------------------------------------
\* DuplicateDetector.  A fingerprint is the string compute_hash returns, a
\* sequence of hex digits; <<>> stands for None (compute_hashes drops every
\* falsy hash).
\* ------------------------------------------------------------------------
NoHash == <<>>

Min(a, b) == IF a <= b THEN a ELSE b

\* sum(c1 != c2 for c1, c2 in zip(hash1, hash2))
hamming_distance(hash1, hash2) ==
    Cardinality({i \in 1..Min(Len(hash1), Len(hash2)) : hash1[i] # hash2[i]})

\* 1 - distance / len(hash1), clamped to [0, 1], as a reduced fraction
hash_similarity(hash1, hash2) ==
    LET distance == hamming_distance(hash1, hash2)
        max_distance == Len(hash1)
    IN IF max_distance = 0 THEN <<0, 1>>
       ELSE IF max_distance - distance <= 0 THEN <<0, 1>>
       ELSE Reduce(<<max_distance - distance, max_distance>>)

FracGt(s, t) == s[1] * t[2] > t[1] * s[2]

\* similarity >= threshold, two fractions
FracGeq(s, t) == s[1] * t[2] >= t[1] * s[2]

\* compute_hashes: the keys of the hashes dict, in insertion order
compute_hashes(image_paths, hashOf) ==
    LET Hashed(p) == hashOf[p] # NoHash IN SelectSeq(image_paths, Hashed)

GroupKeptAlways(group) == TRUE

GroupKept(group) == Len(group) > 1

RECURSIVE FindLoop(_, _, _, _, _, _)
FindLoop(image_list, hashOf, threshold, i, processed, duplicate_groups) ==
    IF i > Len(image_list) THEN duplicate_groups
    ELSE LET img1 == image_list[i]
         IN IF img1 \in processed
            THEN FindLoop(image_list, hashOf, threshold, i + 1, processed,
                          duplicate_groups)
            ELSE LET Joins(img2) ==
                         /\ img2 \notin processed
                         /\ FracGeq(hash_similarity(hashOf[img1], hashOf[img2]),
                                    threshold)
                     group == <<img1>> \o
                              SelectSeq(SubSeq(image_list, i + 1, Len(image_list)),
                                        Joins)
                 IN FindLoop(image_list, hashOf, threshold, i + 1,
                             processed \cup Range(group),
                             IF GroupKept(group)
                             THEN Append(duplicate_groups, group)
                             ELSE duplicate_groups)

\* find_duplicates: the duplicate groups, each a list of paths
find_duplicates(image_paths, hashOf, threshold) ==
    FindLoop(compute_hashes(image_paths, hashOf), hashOf, threshold, 1, {}, <<>>)

\* where sorted(..., reverse=True) puts x: after every element at least as
\* large (the sort is stable)
RECURSIVE InsertBySize(_, _, _)
InsertBySize(sorted, x, sizeOf) ==
    IF sorted = <<>> THEN <<x>>
    ELSE IF sizeOf[Head(sorted)] >= sizeOf[x]
    THEN <<Head(sorted)>> \o InsertBySize(Tail(sorted), x, sizeOf)
    ELSE <<x>> \o sorted

RECURSIVE SortUpTo(_, _, _)
SortUpTo(group, sizeOf, n) ==
    IF n = 0 THEN <<>>
    ELSE InsertBySize(SortUpTo(group, sizeOf, n - 1), group[n], sizeOf)

SortedSmallestFirst(group, sizeOf) ==
    LET s == SortUpTo(group, sizeOf, Len(group))
    IN [i \in 1..Len(s) |-> s[Len(s) + 1 - i]]

\* sorted(group, key=lambda p: p.stat().st_size, reverse=True)
SortedBySize(group, sizeOf) == SortUpTo(group, sizeOf, Len(group))

\* sorted(list(unique_images)): paths in ascending order
RECURSIVE SortedPaths(_)
SortedPaths(S) ==
    IF S = {} THEN <<>>
    ELSE LET m == CHOOSE x \in S : \A y \in S : x <= y
         IN <<m>> \o SortedPaths(S \ {m})

RECURSIVE RemoveLoop(_, _, _, _, _)
RemoveLoop(duplicate_groups, sizeOf, keep_largest, g, acc) ==
    IF g > Len(duplicate_groups) THEN acc
    ELSE LET group == IF keep_largest
                      THEN SortedBySize(duplicate_groups[g], sizeOf)
                      ELSE duplicate_groups[g]
             keep == Head(group)
             remove == Tail(group)
         IN RemoveLoop(duplicate_groups, sizeOf, keep_largest, g + 1,
                       [unique_images |-> acc.unique_images \ Range(remove),
                        removed_images |-> acc.removed_images \o remove,
                        kept |-> Append(acc.kept, keep)])

UniqueStartHashed(image_paths, hashOf) == Range(compute_hashes(image_paths, hashOf))

\* unique_images = set(image_paths)
UniqueStart(image_paths, hashOf) == Range(image_paths)

\* remove_duplicates: unique_images (sorted), removed_images, and for the
\* properties the groups found and the member kept of each
remove_duplicates(image_paths, hashOf, sizeOf, threshold, keep_largest) ==
    LET duplicate_groups == find_duplicates(image_paths, hashOf, threshold)
        r == RemoveLoop(duplicate_groups, sizeOf, keep_largest, 1,
                        [unique_images |-> UniqueStart(image_paths, hashOf),
                         removed_images |-> <<>>,
                         kept |-> <<>>])
    IN [unique_images |-> SortedPaths(r.unique_images),
        removed_images |-> r.removed_images,
        duplicate_groups |-> duplicate_groups,
        kept |-> r.kept]

\* ------------------------------------------------------------------------
\* State
\* ------------------------------------------------------------------------
VARIABLES
    \* build_dataset: position, arguments and locals
    pc,                 \* "main", "start", "call", "run", "tmdb", "ddg",
                        \* "save_ckpt", "loop", "done", "exited"
    stage,              \* the stage being called or run
    resume, verify_actor, target_images,
    report,             \* [status, error, stages]
    actor_profile,
    downloaded,         \* downloaded_count of download_images
    raw_images, idx, valid_faces, processed_count, skipped_count,
    detected_faces, verified_faces, similarity_scores,
    unique_faces, removed_dupes, saved_count,
    \* the builder object and the disk
    checkpoint,         \* self.checkpoint
    checkpoint_file,    \* raw/<identity>/checkpoint.json
    raw_dir,            \* the raw image files of the identity
    reference_embedding,\* ActorVerifier.reference_embedding
    \* history of the run
    started, completed, \* stage methods called / returned, in order
    scored,             \* the candidates verify_image was called on
    dedupe_input,       \* the list handed to remove_duplicates
    ref_trace,          \* verify_actor_faces: "attempt" (get_reference_embedding
                        \* called), "set" (reference_embedding assigned),
                        \* "score" (verify_image compared a candidate)
    ckpt_log,           \* the stages a checkpoint was written for
    ckpt_at,            \* Detect: the image indices a checkpoint was written at
    refetched,          \* Download: images fetched although on disk
    got,                \* Download: what the stage has fetched: n for tmdb
                        \* image n, 0 for files of the search download
    checkpoint_interval,\* the CHECKPOINT_INTERVAL setting of the run
    cli,                \* run.py: the arguments of main() and its exit
    \* the harnesses of SpecVerify, SpecDedup, SpecFetch and SpecSave
    vb,                 \* a verify_batch call and its result
    dd,                 \* remove_duplicates calls and their results
    net,                \* outbound calls and their attempts
    sv,                 \* a save_final_dataset call and what it left
    cs,                 \* a pair of vectors and their cosine_similarity
    fd,                 \* a raw image and the faces Detect took from it
    bl                  \* one ActorDatasetBuilder used for several identities

runVars == <<pc, stage, resume, verify_actor, target_images, report,
             actor_profile, downloaded, raw_images, idx, valid_faces,
             processed_count, skipped_count, detected_faces, verified_faces,
             similarity_scores, unique_faces, removed_dupes, saved_count,
             checkpoint, checkpoint_file, raw_dir, started, completed,
             scored, dedupe_input, ref_trace, ckpt_log, ckpt_at, refetched,
             got, checkpoint_interval, cli>>

histVars == <<ref_trace, ckpt_log, ckpt_at, refetched, got,
              checkpoint_interval, cli>>

vars == <<runVars, reference_embedding, vb, dd, net, sv, cs, fd, bl>>

\* ------------------------------------------------------------------------
\* build_dataset
\* ------------------------------------------------------------------------
Stages == {"identify", "download", "detect", "verify", "dedupe", "save"}

\* the report key of each stage method
StageKey(s) ==
    CASE s = "identify" -> "identification"
      [] s = "download" -> "download"
      [] s = "detect" -> "face_detection"
      [] s = "verify" -> "verification"
      [] s = "dedupe" -> "deduplication"
      [] OTHER -> "save"

AfterStageSwapped(s) ==
    CASE s = "identify" -> "download"
      [] s = "download" -> "detect"
      [] s = "detect" -> "dedupe"
      [] s = "dedupe" -> "verify"
      [] s = "verify" -> "save"
      [] OTHER -> "none"

\* the stage build_dataset calls after stage s has returned a usable result
AfterStage(s) ==
    CASE s = "identify" -> "download"
      [] s = "download" -> "detect"
      [] s = "detect" -> "verify"
      [] s = "verify" -> "dedupe"
      [] s = "dedupe" -> "save"
      [] OTHER -> "none"

NoProfile == [some |-> FALSE, profile_image |-> FALSE, images |-> 0]

\* what get_complete_actor_profile can return: whether the profile has a
\* profile image, and how many gallery images with a file_path it lists
Profiles == [some : {TRUE}, profile_image : BOOLEAN, images : 0..MaxRaw]

\* the target counts a caller passes (None becomes TARGET_IMAGES)
Targets == {0, 2, TARGET_IMAGES}

\* no command line: the process has not exited
NoCli ==
    [tmdb_key |-> TRUE, actor_blank |-> FALSE, exit_code |-> -1,
     how |-> "none"]

\* the command lines main() is given: with or without a TMDb key (option or
\* environment), with a name or a blank one
CliArgs ==
    {[NoCli EXCEPT !.tmdb_key = k, !.actor_blank = b] :
        k \in BOOLEAN, b \in BOOLEAN}

EmptyCheckpoint == [download |-> <<>>, face_detection |-> <<>>]

NoFile == [exists |-> FALSE, readable |-> FALSE, content |-> EmptyCheckpoint]

\* checkpoint.json as an earlier run can have left it: absent, complete, or
\* cut short by an interruption (json.load raises on it)
CheckpointFiles ==
    {NoFile,
     [exists |-> TRUE, readable |-> TRUE,
      content |-> [download |-> <<1>>, face_detection |-> <<>>]],
     [exists |-> TRUE, readable |-> FALSE, content |-> EmptyCheckpoint]}

\* the contents the face files of a run can have: an embedding near the
\* reference or none; one of two fingerprints; all files of one size, or
\* each file larger than the ones before it
PipeKinds == {"e090", "noface"}
PipeHashes == {<<0, 0, 0, 0>>, <<0, 0, 0, 1>>}
PipeSizes(faces) == {[f \in faces |-> 1], [f \in faces |-> f]}

InitialReport == [status |-> "failed", error |-> "absent", stages |-> <<>>]

WithStageFirst(r, key, status) ==
    [r EXCEPT !.stages = <<[name |-> key, status |-> status]>> \o @]

\* report["stages"][key] = {"status": status, ...}
WithStage(r, key, status) ==
    [r EXCEPT !.stages = Append(@, [name |-> key, status |-> status])]

FailedUnnamed(r, status, error) == [r EXCEPT !.status = "aborted", !.error = error]

\* report["status"] = status; report["error"] = error; return report
Failed(r, status, error) == [r EXCEPT !.status = status, !.error = error]

FinalStatusStrict(saved, target) ==
    IF saved > target THEN "success"
    ELSE IF saved > 0 THEN "partial"
    ELSE "failed"

\* the final summary of build_dataset
FinalStatus(saved, target) ==
    IF saved >= target THEN "success"
    ELSE IF saved > 0 THEN "partial"
    ELSE "failed"

\* the checks build_dataset makes on a stage's result (lines 485, 501, 515,
\* 547): the run ends when they hold
NoProfileFound(profile) == ~ profile.some

NoneDownloadedNever(count) == count < 0

NoneDownloaded(count) == count = 0

NoFaces(faces) == faces = <<>>

NoneVerifiedNever(faces) == Len(faces) < 0

NoneVerified(faces) == faces = <<>>

PassOnTail(faces) ==
    [verified_faces |-> Tail(faces), similarity_scores |-> <<>>,
     status |-> "skipped"]

\* lines 539-545: verification bypassed
PassOn(faces) ==
    [verified_faces |-> faces, similarity_scores |-> <<>>,
     status |-> "skipped"]

\* the values the CHECKPOINT_INTERVAL setting takes: the shipped one and a
\* small one
Intervals == {MinInterval, CHECKPOINT_INTERVAL}

harnessIdle ==
    /\ vb = [phase |-> "idle"]
    /\ dd = [phase |-> "idle"]
    /\ net = [phase |-> "idle"]
    /\ sv = [phase |-> "idle"]
    /\ cs = [phase |-> "idle"]
    /\ fd = [phase |-> "idle"]
    /\ bl = [phase |-> "idle"]

\* the arguments of build_dataset, the files on disk and the settings,
\* before the first stage
InitRun ==
    /\ stage = "none"
    /\ resume \in BOOLEAN
    /\ verify_actor \in BOOLEAN
    /\ target_images \in Targets
    /\ report = InitialReport
    /\ actor_profile = NoProfile
    /\ downloaded = 0
    /\ raw_images = <<>>
    /\ idx = 0
    /\ valid_faces = <<>>
    /\ processed_count = 0
    /\ skipped_count = 0
    /\ detected_faces = <<>>
    /\ verified_faces = <<>>
    /\ similarity_scores = <<>>
    /\ unique_faces = <<>>
    /\ removed_dupes = <<>>
    /\ saved_count = 0
    /\ checkpoint = EmptyCheckpoint
    /\ checkpoint_file \in CheckpointFiles
    /\ raw_dir \in {1..n : n \in 0..MaxRaw}
    /\ reference_embedding = None
    /\ started = <<>>
    /\ completed = <<>>
    /\ scored = {}
    /\ dedupe_input = <<>>
    /\ ref_trace = <<>>
    /\ ckpt_log = {}
    /\ ckpt_at = {}
    /\ refetched = {}
    /\ got = {}
    /\ checkpoint_interval \in Intervals
    /\ harnessIdle

\* build_dataset is called on a new ActorDatasetBuilder
Init ==
    /\ pc = "start"
    /\ cli = NoCli
    /\ InitRun

\* run.py main() up to the call of build_dataset (lines 126-149): a missing
\* TMDb key or a blank actor name ends the process at lines 129-136; an
\* exception of ActorDatasetBuilder(...) is caught at line 180
Main ==
    /\ pc = "main"
    /\ \E init_raised \in BOOLEAN :
          IF ~ cli.tmdb_key \/ cli.actor_blank
          THEN /\ ~ init_raised
               /\ cli' = [cli EXCEPT !.exit_code = 1, !.how = "config"]
               /\ pc' = "exited"
          ELSE IF init_raised
          THEN /\ cli' = [cli EXCEPT !.exit_code = 2, !.how = "fatal"]
               /\ pc' = "exited"
          ELSE /\ pc' = "start"
               /\ UNCHANGED cli
    /\ UNCHANGED <<stage, resume, verify_actor, target_images, report,
                   actor_profile, downloaded, raw_images, idx, valid_faces,
                   processed_count, skipped_count, detected_faces,
                   verified_faces, similarity_scores, unique_faces,
                   removed_dupes, saved_count, checkpoint, checkpoint_file,
                   raw_dir, started, completed, scored, dedupe_input,
                   ref_trace, ckpt_log, ckpt_at, refetched, got,
                   checkpoint_interval, reference_embedding, vb, dd, net, sv, cs, fd, bl>>

\* run.py lines 164-173: the exit code for the status of the report
\* the process has ended: the builder, its verifier and the locals of
\* build_dataset are gone; the report main() printed, the files on disk
\* and the settings stay
ProcessGone ==
    /\ stage' = "none"
    /\ resume' = FALSE
    /\ verify_actor' = FALSE
    /\ target_images' = 0
    /\ actor_profile' = NoProfile
    /\ downloaded' = 0
    /\ raw_images' = <<>>
    /\ idx' = 0
    /\ valid_faces' = <<>>
    /\ processed_count' = 0
    /\ skipped_count' = 0
    /\ detected_faces' = <<>>
    /\ verified_faces' = <<>>
    /\ similarity_scores' = <<>>
    /\ unique_faces' = <<>>
    /\ removed_dupes' = <<>>
    /\ saved_count' = 0
    /\ checkpoint' = EmptyCheckpoint
    /\ reference_embedding' = None
    /\ scored' = {}
    /\ dedupe_input' = <<>>
    /\ ref_trace' = <<>>
    /\ ckpt_log' = {}
    /\ ckpt_at' = {}
    /\ refetched' = {}
    /\ got' = {}

ExitCode(status) ==
    IF status = "success" THEN 0
    ELSE IF status = "partial" THEN 1
    ELSE 2

\* run.py lines 151-173: build_dataset has returned its report
Exit ==
    /\ pc = "done"
    /\ cli' = [cli EXCEPT !.exit_code = ExitCode(report.status),
                          !.how = "report"]
    /\ pc' = "exited"
    /\ ProcessGone
    /\ UNCHANGED <<report, checkpoint_file, raw_dir, started, completed,
                   checkpoint_interval, vb, dd, net, sv, cs, fd, bl>>

\* run.py lines 175-178: the user interrupts the run, here as one of the
\* first three stages is called; KeyboardInterrupt is no Exception, so
\* build_dataset lets it pass
Interrupt ==
    /\ pc = "call" /\ stage \in {"identify", "download", "detect"}
    /\ cli' = [cli EXCEPT !.exit_code = 3, !.how = "interrupt"]
    /\ pc' = "exited"
    /\ ProcessGone
    /\ UNCHANGED <<report, checkpoint_file, raw_dir, started, completed,
                   checkpoint_interval, vb, dd, net, sv, cs, fd, bl>>

\* lines 474-479: load the checkpoint when resuming; json.load raising is
\* caught at line 589
LoadCheckpoint ==
    /\ pc = "start"
    /\ IF resume /\ checkpoint_file.exists /\ ~ checkpoint_file.readable
       THEN /\ report' = Failed(report, "error", "exception")
            /\ pc' = "done"
            /\ UNCHANGED <<stage, checkpoint>>
       ELSE /\ checkpoint' = IF resume
                             THEN IF checkpoint_file.exists
                                  THEN checkpoint_file.content
                                  ELSE EmptyCheckpoint
                             ELSE checkpoint
            /\ pc' = "call"
            /\ stage' = "identify"
            /\ UNCHANGED report
    /\ UNCHANGED <<resume, verify_actor, target_images, actor_profile,
                   downloaded, raw_images, idx, valid_faces, processed_count,
                   skipped_count, detected_faces, verified_faces,
                   similarity_scores, unique_faces, removed_dupes, saved_count,
                   checkpoint_file, raw_dir, started, completed, scored,
                   dedupe_input, reference_embedding, vb, dd, net, sv, cs, fd, bl>>
    /\ UNCHANGED histVars

\* the position inside a stage method right after it is called
EntryOf(s) ==
    CASE s = "download" -> "tmdb"
      [] OTHER -> "run"

\* build_dataset calls the stage method of `stage`
StartStage ==
    /\ pc = "call"
    /\ stage = "verify" => verify_actor
    /\ started' = Append(started, stage)
    /\ dedupe_input' = IF stage = "dedupe" THEN verified_faces ELSE dedupe_input
    /\ pc' = EntryOf(stage)
    /\ UNCHANGED <<stage, resume, verify_actor, target_images, report,
                   actor_profile, downloaded, raw_images, idx, valid_faces,
                   processed_count, skipped_count, detected_faces,
                   verified_faces, similarity_scores, unique_faces,
                   removed_dupes, saved_count, checkpoint, checkpoint_file,
                   raw_dir, completed, scored, reference_embedding, vb, dd, net, sv, cs, fd, bl>>
    /\ UNCHANGED histVars

\* the return of the stage method of `stage` and build_dataset up to its
\* next call.  The stage is recorded as "success" when its result is usable
\* (stop is false) or when build_dataset records it before looking at the
\* result (recorded_first, the verification stage); when stop holds the run
\* ends with `status` and `error`, otherwise the next stage is called
Continue(recorded_first, stop, status, error) ==
    /\ completed' = Append(completed, stage)
    /\ LET r == IF recorded_first \/ ~ stop
                THEN WithStage(report, StageKey(stage), "success")
                ELSE report
       IN IF stop
          THEN /\ report' = Failed(r, status, error)
               /\ pc' = "done"
               /\ UNCHANGED stage
          ELSE /\ report' = r
               /\ pc' = "call"
               /\ stage' = AfterStage(stage)

\* identify_actor (lines 86-121) and lines 483-495
Identify ==
    /\ pc = "run" /\ stage = "identify"
    /\ \E profile \in Profiles \cup {NoProfile} :
          /\ actor_profile' = profile
          /\ Continue(FALSE, NoProfileFound(profile), "failed", "Could not identify actor")
    /\ UNCHANGED <<resume, verify_actor, target_images, downloaded, raw_images,
                   idx, valid_faces, processed_count, skipped_count,
                   detected_faces, verified_faces, similarity_scores,
                   unique_faces, removed_dupes, saved_count, checkpoint,
                   checkpoint_file, raw_dir, started, scored, dedupe_input,
                   reference_embedding, vb, dd, net, sv, cs, fd, bl>>
    /\ UNCHANGED histVars

\* download_images, step 1 (lines 141-156): download_from_tmdb over
\* tmdb_images[:limit]; ok are the images download_and_save wrote
DownloadTmdb ==
    /\ pc = "tmdb"
    /\ LET target_count == MIN_RAW_IMAGES
           limit == Min(40, target_count \div 3)
           fetched == 1..Min(actor_profile.images, limit)
       IN \E ok \in SUBSET fetched :
             /\ raw_dir' = raw_dir \cup ok
             /\ downloaded' = Cardinality(ok)
             /\ refetched' = fetched \cap raw_dir
             /\ got' = ok
    /\ pc' = "ddg"
    /\ UNCHANGED <<stage, resume, verify_actor, target_images, report,
                   actor_profile, raw_images, idx, valid_faces,
                   processed_count, skipped_count, detected_faces,
                   verified_faces, similarity_scores, unique_faces,
                   removed_dupes, saved_count, checkpoint, checkpoint_file,
                   started, completed, scored, dedupe_input,
                   reference_embedding, vb, dd, net, sv, cs, fd, bl>>
    /\ UNCHANGED <<ref_trace, ckpt_log, ckpt_at, checkpoint_interval, cli>>

\* download_from_duckduckgo (image_downloader.py lines 237-258): the files go
\* to the folder "downloads"; the count returned is min(limit, 10), or 0
\* when the search download raised
download_from_duckduckgo(limit, raised) == IF raised THEN 0 ELSE Min(limit, 10)

\* download_images, step 2 (lines 158-174); some is whether the search
\* download fetched any file, which its return value does not tell
DownloadDdg ==
    /\ pc = "ddg"
    /\ LET target_count == MIN_RAW_IMAGES
       IN IF downloaded < target_count
          THEN \E raised \in BOOLEAN, some \in BOOLEAN :
                  /\ downloaded' = downloaded +
                        download_from_duckduckgo(target_count - downloaded,
                                                 raised)
                  /\ got' = IF some THEN got \cup {0} ELSE got
          ELSE UNCHANGED <<downloaded, got>>
    /\ pc' = "save_ckpt"
    /\ UNCHANGED <<stage, resume, verify_actor, target_images, report,
                   actor_profile, raw_images, idx, valid_faces,
                   processed_count, skipped_count, detected_faces,
                   verified_faces, similarity_scores, unique_faces,
                   removed_dupes, saved_count, checkpoint, checkpoint_file,
                   raw_dir, started, completed, scored, dedupe_input,
                   reference_embedding, vb, dd, net, sv, cs, fd, bl>>
    /\ UNCHANGED <<ref_trace, ckpt_log, ckpt_at, refetched,
                   checkpoint_interval, cli>>

\* what a save_checkpoint that raised can leave on disk: the old file, or a
\* file cut short
AfterFailedSave(file) ==
    {file, [exists |-> TRUE, readable |-> FALSE, content |-> EmptyCheckpoint]}

Written(ckpt) == [exists |-> TRUE, readable |-> TRUE, content |-> ckpt]

\* download_images, step 3 (lines 176-189) and build_dataset lines 501-509:
\* the checkpoint is saved and the count returned, or save_checkpoint raises
\* and 0 is returned
DownloadReturn ==
    /\ pc = "save_ckpt"
    /\ checkpoint' = [checkpoint EXCEPT !.download = <<downloaded>>]
    /\ \/ /\ checkpoint_file' = Written(checkpoint')
          /\ ckpt_log' = ckpt_log \cup {"download"}
          /\ UNCHANGED downloaded
       \/ /\ checkpoint_file' \in AfterFailedSave(checkpoint_file)
          /\ downloaded' = 0
          /\ UNCHANGED ckpt_log
    /\ refetched' = {}
    /\ got' = {}
    /\ Continue(FALSE, NoneDownloaded(downloaded'), "failed", "Could not download any images")
    /\ UNCHANGED <<resume, verify_actor, target_images, actor_profile,
                   raw_images, idx, valid_faces, processed_count,
                   skipped_count, detected_faces, verified_faces,
                   similarity_scores, unique_faces, removed_dupes, saved_count,
                   raw_dir, started, scored, dedupe_input,
                   reference_embedding, vb, dd, net, sv, cs, fd, bl>>
    /\ UNCHANGED <<ref_trace, ckpt_at, checkpoint_interval, cli>>

\* the locals of detect_and_validate_faces before it is called and after
\* it has returned
DetectLocalsGone ==
    /\ ckpt_at' = {}
    /\ raw_images' = <<>>
    /\ idx' = 0
    /\ valid_faces' = <<>>
    /\ processed_count' = 0
    /\ skipped_count' = 0

\* detect_and_validate_faces up to the loop (lines 204-219) and, when the
\* raw directory holds no image, its return and build_dataset lines 515-518
DetectList ==
    /\ pc = "run" /\ stage = "detect"
    /\ IF raw_dir = {}
       THEN /\ detected_faces' = <<>>
            /\ Continue(FALSE, NoFaces(<<>>), "failed",
                        "Could not detect any valid faces")
            /\ DetectLocalsGone
       ELSE /\ raw_images' = SortedPaths(raw_dir)
            /\ valid_faces' = <<>>
            /\ processed_count' = 0
            /\ skipped_count' = 0
            /\ idx' = 0
            /\ ckpt_at' = {}
            /\ pc' = "loop"
            /\ UNCHANGED <<stage, report, completed, detected_faces>>
    /\ UNCHANGED <<resume, verify_actor, target_images, actor_profile,
                   downloaded, verified_faces, similarity_scores, unique_faces,
                   removed_dupes, saved_count, checkpoint, checkpoint_file,
                   raw_dir, started, scored, dedupe_input,
                   reference_embedding, vb, dd, net, sv, cs, fd, bl>>
    /\ UNCHANGED <<ref_trace, ckpt_log, refetched, got, checkpoint_interval, cli>>

\* the face files written for one raw image: face_<len(valid_faces)>, one
\* per save_face_image that succeeded
NewFaces(faces, saved) == [i \in 1..saved |-> Len(faces) + i]

SkippedOnlyInvalid(outcome, ckpt_raised, skipped) ==
    IF outcome = "invalid" THEN skipped + 1 ELSE skipped

\* lines 235-236 and 252-254: skipped_count after one image; the except
\* clause counts the image when validate_and_crop_faces, save_face_image or
\* save_checkpoint raised
SkippedAfter(outcome, ckpt_raised, skipped) ==
    IF outcome = "valid" /\ ~ ckpt_raised THEN skipped ELSE skipped + 1

\* one iteration of the loop (lines 221-255).  outcome: "error" (the
\* iteration raised), "invalid" (validate_and_crop_faces rejected the image)
\* or "valid"; saved of the cropped faces were written
DetectImage ==
    /\ pc = "loop"
    /\ idx < Len(raw_images)
    /\ idx' = idx + 1
    /\ \E outcome \in {"error", "invalid", "valid"},
          saved \in 0..MAX_FACES_PER_IMAGE, ckpt_raised \in BOOLEAN :
          /\ outcome = "invalid" => saved = 0
          /\ Len(valid_faces) + saved <= MaxFaces
          /\ (outcome = "error" \/ idx' % checkpoint_interval # 0)
                => ~ ckpt_raised
          /\ valid_faces' = valid_faces \o NewFaces(valid_faces, saved)
          /\ processed_count' =
                IF outcome = "valid" THEN processed_count + 1
                ELSE processed_count
          /\ skipped_count' = SkippedAfter(outcome, ckpt_raised, skipped_count)
          /\ IF outcome # "error" /\ idx' % checkpoint_interval = 0
             THEN /\ checkpoint' =
                        [checkpoint EXCEPT !.face_detection =
                            <<processed_count', Len(valid_faces')>>]
                  /\ IF ckpt_raised
                     THEN /\ checkpoint_file' \in AfterFailedSave(checkpoint_file)
                          /\ UNCHANGED <<ckpt_log, ckpt_at>>
                     ELSE /\ checkpoint_file' = Written(checkpoint')
                          /\ ckpt_log' = ckpt_log \cup {"detect"}
                          /\ ckpt_at' = ckpt_at \cup {idx'}
             ELSE UNCHANGED <<checkpoint, checkpoint_file, ckpt_log, ckpt_at>>
    /\ UNCHANGED <<pc, stage, resume, verify_actor, target_images, report,
                   actor_profile, downloaded, raw_images, detected_faces,
                   verified_faces, similarity_scores, unique_faces,
                   removed_dupes, saved_count, raw_dir, started, completed,
                   scored, dedupe_input, reference_embedding, vb, dd, net, sv, cs, fd, bl>>
    /\ UNCHANGED <<ref_trace, refetched, got, checkpoint_interval, cli>>

\* the return of detect_and_validate_faces (lines 257-262) and build_dataset
\* lines 515-523
DetectReturn ==
    /\ pc = "loop"
    /\ idx = Len(raw_images)
    /\ detected_faces' = valid_faces
    /\ Continue(FALSE, NoFaces(valid_faces), "failed",
                "Could not detect any valid faces")
    /\ DetectLocalsGone
    /\ UNCHANGED <<resume, verify_actor, target_images, actor_profile,
                   downloaded, verified_faces, similarity_scores,
                   unique_faces, removed_dupes, saved_count, checkpoint,
                   checkpoint_file, raw_dir, started, scored, dedupe_input,
                   reference_embedding, vb, dd, net, sv, cs, fd, bl>>
    /\ UNCHANGED <<ref_trace, ckpt_log, refetched, got, checkpoint_interval, cli>>

\* lines 295-299: the profile image url, when the profile has an image and
\* the detector object has a get_image_url attribute
ProfileUrl(profile, has_get_image_url) ==
    IF profile.profile_image /\ has_get_image_url THEN "url" ELSE None

\* what set_reference_actor and verify_batch do, in order: the extraction
\* is attempted when no embedding is given and there is a url (lines 66-67),
\* the reference is assigned when one results (lines 61, 69), and then
\* verify_image compares every candidate with it (none without a reference)
ReferenceEvents(tmdb_profile_url, ref, face_images) ==
    (IF tmdb_profile_url # None THEN <<"attempt">> ELSE <<>>)
    \o (IF ref # None THEN <<"set">> ELSE <<>>)
    \o (IF ref # None THEN [i \in 1..Len(face_images) |-> "score"] ELSE <<>>)

\* verify_actor_faces (lines 286-334): a new ActorVerifier, the reference
\* from the profile image, then verify_batch with return_scores=True.
\* extracted is what get_reference_embedding returns, kindOf the content of
\* the face files; raised: "before" (an exception before the reference is
\* looked for), "after" (one after verify_batch returned) or "no"; both end
\* at line 332
verify_actor_faces(profile, face_images, has_get_image_url, extracted, kindOf, raised) ==
    LET url == ProfileUrl(profile, has_get_image_url)
        ref == set_reference_actor(None, None, url, extracted)
        batch == verify_batch(ref.reference_embedding, face_images, kindOf,
                              NoThreshold, TRUE)
    IN IF face_images = <<>> \/ raised = "before"
       THEN [reference_embedding |-> None, verified |-> <<>>, scores |-> <<>>,
             scored |-> {}, events |-> <<>>]
       ELSE [reference_embedding |-> ref.reference_embedding,
             verified |-> IF raised = "after" THEN <<>> ELSE batch.valid_images,
             scores |-> IF raised = "after" THEN <<>> ELSE batch.scores,
             scored |-> IF ref.reference_embedding = None THEN {}
                        ELSE Range(face_images),
             events |-> ReferenceEvents(url, ref.reference_embedding,
                                        face_images)]

\* Stage 4 with verify_actor (lines 527-538, 547-550)
Verify ==
    /\ pc = "run" /\ stage = "verify"
    /\ \E has_get_image_url \in BOOLEAN, extracted \in {None, "ref"},
          kindOf \in [Range(detected_faces) -> PipeKinds],
          raised \in {"no", "before", "after"} :
          LET r == verify_actor_faces(actor_profile, detected_faces,
                                      has_get_image_url, extracted, kindOf,
                                      raised)
          IN \* what the call does not look at is not varied
             /\ has_get_image_url => actor_profile.profile_image
             /\ extracted # None => has_get_image_url /\ raised # "before"
             /\ extracted = None =>
                   \A f \in DOMAIN kindOf : kindOf[f] = "noface"
             /\ reference_embedding' = r.reference_embedding
             /\ verified_faces' = r.verified
             /\ similarity_scores' = r.scores
             /\ scored' = scored \cup r.scored
             /\ ref_trace' = ref_trace \o r.events
             /\ Continue(TRUE, NoneVerified(r.verified), "partial",
                         "No faces passed verification")
    /\ UNCHANGED <<resume, verify_actor, target_images, actor_profile,
                   downloaded, raw_images, idx, valid_faces, processed_count,
                   skipped_count, detected_faces, unique_faces, removed_dupes,
                   saved_count, checkpoint, checkpoint_file, raw_dir, started,
                   dedupe_input, ckpt_log, ckpt_at, refetched, got,
                   checkpoint_interval, cli, vb, dd, net, sv, cs, fd, bl>>

\* Stage 4 without verify_actor (lines 539-550): verify_actor_faces is not
\* called; the detected faces pass on and the stage is recorded "skipped"
VerifySkipped ==
    /\ pc = "call" /\ stage = "verify"
    /\ ~ verify_actor
    /\ verified_faces' = PassOn(detected_faces).verified_faces
    /\ similarity_scores' = PassOn(detected_faces).similarity_scores
    /\ LET r == WithStage(report, StageKey(stage), PassOn(detected_faces).status)
       IN IF NoneVerified(verified_faces')
          THEN /\ report' = Failed(r, "partial", "No faces passed verification")
               /\ pc' = "done"
               /\ UNCHANGED stage
          ELSE /\ report' = r
               /\ pc' = "call"
               /\ stage' = AfterStage(stage)
    /\ UNCHANGED <<resume, verify_actor, target_images, actor_profile,
                   downloaded, raw_images, idx, valid_faces, processed_count,
                   skipped_count, detected_faces, unique_faces, removed_dupes,
                   saved_count, checkpoint, checkpoint_file, raw_dir, started,
                   completed, scored, dedupe_input, reference_embedding,
                   vb, dd, net, sv, cs, fd, bl>>
    /\ UNCHANGED histVars

\* ActorDatasetBuilder.remove_duplicates (lines 336-365) with the detector
\* of __init__ (DuplicateDetector(), the thresholds of the settings);
\* raised: the detector raised and the input is returned unchanged
builder_remove_duplicates(image_paths, hashOf, sizeOf, raised) ==
    IF image_paths = <<>>
    THEN [unique_images |-> <<>>, removed_images |-> <<>>]
    ELSE IF raised
    THEN [unique_images |-> image_paths, removed_images |-> <<>>]
    ELSE LET r == remove_duplicates(image_paths, hashOf, sizeOf,
                                    DUPLICATE_THRESHOLD, TRUE)
         IN [unique_images |-> r.unique_images,
             removed_images |-> r.removed_images]

\* Stage 5 (lines 552-560)
Dedupe ==
    /\ pc = "run" /\ stage = "dedupe"
    /\ \/ \* the detector raised: the fingerprints and sizes are not
          \* looked at
          LET same == [f \in Range(verified_faces) |-> 1]
              r == builder_remove_duplicates(verified_faces, same, same, TRUE)
          IN /\ unique_faces' = r.unique_images
             /\ removed_dupes' = r.removed_images
       \/ \E hashOf \in [Range(verified_faces) -> PipeHashes],
             sizeOf \in PipeSizes(Range(verified_faces)) :
             LET r == builder_remove_duplicates(verified_faces, hashOf,
                                                sizeOf, FALSE)
             IN /\ unique_faces' = r.unique_images
                /\ removed_dupes' = r.removed_images
    /\ Continue(FALSE, FALSE, "none", "none")
    /\ UNCHANGED <<resume, verify_actor, target_images, actor_profile,
                   downloaded, raw_images, idx, valid_faces, processed_count,
                   skipped_count, detected_faces, verified_faces,
                   similarity_scores, saved_count, checkpoint, checkpoint_file,
                   raw_dir, started, scored, dedupe_input,
                   reference_embedding, vb, dd, net, sv, cs, fd, bl>>
    /\ UNCHANGED histVars

\* save_final_dataset (lines 386-439): copied are the positions of
\* image_paths whose copy succeeded; raised: an exception outside the
\* per-file try (saving the metadata), which returns 0
save_final_dataset(image_paths, copied, raised) ==
    IF raised THEN 0 ELSE Cardinality(copied)

\* Stage 6 and the final summary (lines 562-595); the copies that succeed
\* are the first k, the count being all the run keeps of them
Save ==
    /\ pc = "run" /\ stage = "save"
    /\ \E copied \in {1..k : k \in 0..Len(unique_faces)}, raised \in BOOLEAN :
          /\ raised => copied = {}
          /\ saved_count' = save_final_dataset(unique_faces, copied, raised)
    /\ completed' = Append(completed, stage)
    /\ report' = [WithStage(report, StageKey(stage), "success")
                    EXCEPT !.status = FinalStatus(saved_count', target_images)]
    /\ pc' = "done"
    /\ UNCHANGED <<stage, resume, verify_actor, target_images, actor_profile,
                   downloaded, raw_images, idx, valid_faces, processed_count,
                   skipped_count, detected_faces, verified_faces,
                   similarity_scores, unique_faces, removed_dupes, checkpoint,
                   checkpoint_file, raw_dir, started, scored, dedupe_input,
                   reference_embedding, vb, dd, net, sv, cs, fd, bl>>
    /\ UNCHANGED histVars

Next ==
    \/ LoadCheckpoint
    \/ StartStage
    \/ Identify
    \/ DownloadTmdb
    \/ DownloadDdg
    \/ DownloadReturn
    \/ DetectList
    \/ DetectImage
    \/ DetectReturn
    \/ Verify
    \/ VerifySkipped
    \/ Dedupe
    \/ Save

Spec == Init /\ [][Next]_vars

\* build_dataset runs in one thread that nothing suspends: a step that can be
\* taken is taken
SpecLive == Init /\ [][Next]_vars /\ WF_vars(Next)

\* ------------------------------------------------------------------------
\* SpecCli: run.py, the command line around build_dataset
\* ------------------------------------------------------------------------
CliInit ==
    /\ pc = "main"
    /\ cli \in CliArgs
    /\ InitRun

CliNext == Main \/ Exit \/ Interrupt \/ Next

SpecCli == CliInit /\ [][CliNext]_vars

\* ------------------------------------------------------------------------
\* SpecVerify: an ActorVerifier is given a reference and one verify_batch
\* call is made on it
\* ------------------------------------------------------------------------
runIdle ==
    /\ pc = "idle"
    /\ stage = "none"
    /\ resume = FALSE
    /\ verify_actor = FALSE
    /\ target_images = 0
    /\ report = InitialReport
    /\ actor_profile = NoProfile
    /\ downloaded = 0
    /\ raw_images = <<>>
    /\ idx = 0
    /\ valid_faces = <<>>
    /\ processed_count = 0
    /\ skipped_count = 0
    /\ detected_faces = <<>>
    /\ verified_faces = <<>>
    /\ similarity_scores = <<>>
    /\ unique_faces = <<>>
    /\ removed_dupes = <<>>
    /\ saved_count = 0
    /\ checkpoint = EmptyCheckpoint
    /\ checkpoint_file = NoFile
    /\ raw_dir = {}
    /\ started = <<>>
    /\ completed = <<>>
    /\ scored = {}
    /\ dedupe_input = <<>>
    /\ ref_trace = <<>>
    /\ ckpt_log = {}
    /\ ckpt_at = {}
    /\ refetched = {}
    /\ got = {}
    /\ checkpoint_interval = CHECKPOINT_INTERVAL
    /\ cli = NoCli

\* the thresholds passed to verify_batch; NoThreshold takes the configured
\* FACE_SIMILARITY_THRESHOLD
Thresholds == {<<0, 1>>, NoThreshold, <<1, 1>>}

\* the threshold verify_image compares with
Effective(threshold) ==
    IF threshold = NoThreshold THEN FACE_SIMILARITY_THRESHOLD ELSE threshold

\* the candidate lists of the harness: paths 1..n with any contents, and the
\* scenario of four candidates of similarity 0.1, 0.5, 0.42, 0.9
ScenarioKinds == <<"e010", "e050", "e042", "e090">>

CandidateLists ==
    {[image_paths |-> [i \in 1..Len(k) |-> i], kindOf |-> k] :
        k \in SeqsUpTo(FaceKinds, MaxCandidates)}

VerifyInit ==
    /\ runIdle
    /\ reference_embedding = None
    /\ vb = [phase |-> "new"]
    /\ dd = [phase |-> "idle"]
    /\ net = [phase |-> "idle"]
    /\ sv = [phase |-> "idle"]
    /\ cs = [phase |-> "idle"]
    /\ fd = [phase |-> "idle"]
    /\ bl = [phase |-> "idle"]

\* set_reference_actor(actor_name, reference_embedding, tmdb_profile_url)
SetReference ==
    /\ vb.phase = "new"
    /\ \E given \in {None, "ref", "empty"}, url \in {None, "url"},
          extracted \in {None, "ref"} :
          reference_embedding' =
              set_reference_actor(reference_embedding, given, url,
                                  extracted).reference_embedding
    /\ vb' = [phase |-> "ready"]
    /\ UNCHANGED <<runVars, dd, net, sv, cs, fd, bl>>

\* verify_batch(image_paths, threshold, return_scores)
VerifyBatch ==
    /\ vb.phase = "ready"
    /\ \E c \in CandidateLists \cup
                {[image_paths |-> <<1, 2, 3, 4>>, kindOf |-> ScenarioKinds]},
          threshold \in Thresholds, return_scores \in BOOLEAN :
          LET r == verify_batch(reference_embedding, c.image_paths, c.kindOf,
                                threshold, return_scores)
          IN vb' = [phase |-> "done",
                    image_paths |-> c.image_paths,
                    kindOf |-> c.kindOf,
                    threshold |-> threshold,
                    return_scores |-> return_scores,
                    valid_images |-> r.valid_images,
                    scores |-> r.scores]
    /\ UNCHANGED <<runVars, reference_embedding, dd, net, sv, cs, fd, bl>>

VerifyNext == SetReference \/ VerifyBatch

SpecVerify == VerifyInit /\ [][VerifyNext]_vars

\* ------------------------------------------------------------------------
\* SpecDedup: remove_duplicates on an image list, then again on the unique
\* list it returned
\* ------------------------------------------------------------------------
\* the thresholds a DuplicateDetector is built with: the configured one and
\* 0.75
DupThresholds == {DUPLICATE_THRESHOLD, <<3, 4>>}

\* fingerprints of a 4x4 hash (4 hex digits), and no fingerprint
DupHashes == {<<0, 0, 0, 0>>, <<0, 0, 0, 1>>, <<0, 0, 1, 1>>, NoHash}

Sizes == {1, 2}

\* the scenario of five images with 16x16 hashes (64 hex digits): images 2
\* and 4 differ in 2 digits (similarity 62/64), image 4 is the larger file,
\* images 1, 3, 5 are unlike every other
ScenarioHash ==
    [p \in 1..5 |->
        [k \in 1..64 |-> CASE p = 2 -> 0
                           [] p = 4 -> IF k <= 2 THEN 15 ELSE 0
                           [] OTHER -> p]]

ScenarioSize == [p \in 1..5 |-> IF p = 4 THEN 2 ELSE 1]

\* three images with 16x16 hashes: 1 and 2 differ in 2 digits, 2 and 3 in 2
\* digits, 1 and 3 in 4 digits (similarity 60/64); image 2 is the larger file
ChainHash ==
    [p \in 1..3 |-> [k \in 1..64 |-> IF k <= 2 * (p - 1) THEN 1 ELSE 0]]

ChainSize == [p \in 1..3 |-> IF p = 2 THEN 2 ELSE 1]

ScenarioInputs ==
    {[image_paths |-> <<1, 2, 3, 4, 5>>, hashOf |-> ScenarioHash,
      sizeOf |-> ScenarioSize],
     [image_paths |-> <<1, 2, 3>>, hashOf |-> ChainHash, sizeOf |-> ChainSize]}

\* the image lists of the harness: up to MaxImages distinct paths in any
\* order
ImageLists == {q \in SeqsUpTo(1..MaxImages, MaxImages) : NoRepeat(q)}

\* an image list with any fingerprints and sizes
DedupInputs(ps) ==
    {[image_paths |-> ps, hashOf |-> h, sizeOf |-> z] :
        h \in [Range(ps) -> DupHashes], z \in [Range(ps) -> Sizes]}

DedupInit ==
    /\ runIdle
    /\ reference_embedding = None
    /\ vb = [phase |-> "idle"]
    /\ dd = [phase |-> "new"]
    /\ net = [phase |-> "idle"]
    /\ sv = [phase |-> "idle"]
    /\ cs = [phase |-> "idle"]
    /\ fd = [phase |-> "idle"]
    /\ bl = [phase |-> "idle"]

\* DuplicateDetector(threshold=...).remove_duplicates(image_paths)
RemoveFirst ==
    /\ dd.phase = "new"
    /\ \E ps \in ImageLists, threshold \in DupThresholds :
       \E in \in DedupInputs(ps) \cup ScenarioInputs :
          dd' = [phase |-> "first",
                 threshold |-> threshold,
                 image_paths |-> in.image_paths,
                 hashOf |-> in.hashOf,
                 sizeOf |-> in.sizeOf,
                 first |-> remove_duplicates(in.image_paths, in.hashOf,
                                             in.sizeOf, threshold, TRUE),
                 second |-> remove_duplicates(<<>>, in.hashOf, in.sizeOf,
                                              threshold, TRUE)]
    /\ UNCHANGED <<runVars, reference_embedding, vb, net, sv, cs, fd, bl>>

\* remove_duplicates again, on the unique list of the first call
RemoveSecond ==
    /\ dd.phase = "first"
    /\ dd' = [dd EXCEPT
                !.phase = "second",
                !.second = remove_duplicates(dd.first.unique_images, dd.hashOf,
                                             dd.sizeOf, dd.threshold, TRUE)]
    /\ UNCHANGED <<runVars, reference_embedding, vb, net, sv, cs, fd, bl>>

DedupNext == RemoveFirst \/ RemoveSecond

SpecDedup == DedupInit /\ [][DedupNext]_vars

\* ------------------------------------------------------------------------
\* The outbound calls on their own (specification SpecFetch):
\* TMDbActorIdentifier._make_request and ImageDownloader.download_and_save
\* ------------------------------------------------------------------------
\* image_downloader.py line 120: the smallest payload kept, in bytes
MinPayloadBytes == 5000

Urls == 1..MaxUrls

\* what one session.get of _make_request comes to: "data" (a 2xx response
\* with a body free of errors), "api_error" (a 2xx response whose body has
\* "errors" or a false "success"), "transport" (ConnectionError, Timeout,
\* a 5xx status), "auth" (401/403), "notfound" (404)
ApiOutcomes == {"data", "api_error", "transport", "auth", "notfound"}

\* an auth or not-found response
NonTransient == {"auth", "notfound"}

\* the exception one attempt of _make_request raises (lines 77-85):
\* raise_for_status raises HTTPError, a RequestException, for every 4xx and
\* 5xx status
RaisedBy(outcome) ==
    CASE outcome = "data" -> None
      [] outcome = "api_error" -> "ValueError"
      [] OTHER -> "RequestException"

\* retry=retry_if_exception_type(requests.RequestException)
RetryIf(exception) == exception = "RequestException"

StopOneLater(attempt_number) == attempt_number > MAX_RETRIES

\* stop=stop_after_attempt(MAX_RETRIES)
StopAfterAttempt(attempt_number) == attempt_number >= MAX_RETRIES

\* a TMDbActorIdentifier that has made no request
NewIdentifier ==
    [client |-> "tmdb", phase |-> "ready", attempt_number |-> 0,
     first |-> None, last |-> None, result |-> None,
     gap |-> "first", gap_before |-> "first"]

\* what one session.get of _download_image comes to: an exception of the
\* transport, an auth or not-found status, a 2xx response that is no image,
\* or an image of some size
Payloads == {0, MinPayloadBytes - 1, MinPayloadBytes, MinPayloadBytes + 1}

DownloadResponses ==
    {[kind |-> k, size |-> 0] :
        k \in {"transport", "auth", "notfound", "notimage"}}
    \cup {[kind |-> "image", size |-> z] : z \in Payloads}

\* no download_and_save call yet
NoCall ==
    [url |-> 0, response |-> [kind |-> None, size |-> 0], was_small |-> FALSE,
     gets |-> 0, raised |-> FALSE, ok |-> FALSE, wrote |-> FALSE,
     gap_before |-> "first"]

\* ImageDownloader.__init__
NewDownloader ==
    [client |-> "downloader", phase |-> "ready", failed_urls |-> {},
     downloaded_urls |-> {}, files |-> {}, small |-> {}, call |-> NoCall,
     gap |-> "first"]

MemoisedNever(url, failed_urls) == FALSE

\* lines 78-79
Memoised(url, failed_urls) == url \in failed_urls

\* line 120
TooSmall(size) == size < MinPayloadBytes

\* _download_image(url): image is whether bytes are returned, gets the
\* number of session.get calls, raised whether an exception left the body.
\* Every exception of the body is caught at lines 128-131, so none leaves
\* it and the retry decorator sees a returned value on the first attempt.
_download_image(url, failed_urls, downloaded_urls, response) ==
    IF Memoised(url, failed_urls)
    THEN [image |-> FALSE, gets |-> 0, raised |-> FALSE,
          failed_urls |-> failed_urls, downloaded_urls |-> downloaded_urls]
    ELSE IF response.kind = "image" /\ ~ TooSmall(response.size)
         THEN [image |-> TRUE, gets |-> 1, raised |-> FALSE,
               failed_urls |-> failed_urls,
               downloaded_urls |-> downloaded_urls \cup {url}]
         ELSE [image |-> FALSE, gets |-> 1, raised |-> FALSE,
               failed_urls |-> failed_urls \cup {url},
               downloaded_urls |-> downloaded_urls]

FetchInit ==
    /\ runIdle
    /\ reference_embedding = None
    /\ vb = [phase |-> "idle"]
    /\ dd = [phase |-> "idle"]
    /\ net \in {NewIdentifier, NewDownloader}
    /\ sv = [phase |-> "idle"]
    /\ cs = [phase |-> "idle"]
    /\ fd = [phase |-> "idle"]
    /\ bl = [phase |-> "idle"]

\* a caller calls _make_request(endpoint, params)
MakeRequest ==
    /\ net.client = "tmdb" /\ net.phase = "ready"
    /\ net' = [NewIdentifier EXCEPT !.phase = "request", !.gap = net.gap,
                                    !.gap_before = net.gap_before]
    /\ UNCHANGED <<runVars, reference_embedding, vb, dd, sv, cs, fd, bl>>

\* one attempt of _make_request under the retry decorator (lines 49-85):
\* the body runs; when it raised an exception the decorator retries on and
\* the stop condition does not hold, the call waits and goes on to the next
\* attempt; otherwise the call ends with the data, the exception, or
\* RetryError
Attempt ==
    /\ net.client = "tmdb" /\ net.phase = "request"
    /\ \E outcome \in ApiOutcomes :
          LET n == net.attempt_number + 1
              exception == RaisedBy(outcome)
              first == IF n = 1 THEN outcome ELSE net.first
              made == [net EXCEPT !.attempt_number = n, !.first = first,
                                 !.last = outcome, !.gap_before = net.gap,
                                 !.gap = "nothing"]
          IN  net' =
                 IF exception = None
                 THEN [made EXCEPT !.phase = "ready", !.result = "data"]
                 ELSE IF ~ RetryIf(exception)
                 THEN [made EXCEPT !.phase = "ready", !.result = exception]
                 ELSE IF StopAfterAttempt(n)
                 THEN [made EXCEPT !.phase = "ready", !.result = "RetryError"]
                 ELSE [made EXCEPT !.gap = "backoff"]
    /\ UNCHANGED <<runVars, reference_embedding, vb, dd, sv, cs, fd, bl>>

\* download_and_save(url, save_path) (lines 133-163) as the loop of
\* download_from_tmdb calls it (line 204), save_path being the path of url;
\* write_ok is whether the file could be written
DownloadAndSave ==
    /\ net.client = "downloader" /\ net.phase = "ready"
    /\ \E url \in Urls, response \in DownloadResponses, write_ok \in BOOLEAN :
          LET r == _download_image(url, net.failed_urls, net.downloaded_urls,
                                   response)
              wrote == r.image /\ write_ok
          IN  net' = [net EXCEPT
                        !.phase = "delay",
                        !.gap = IF r.gets > 0 THEN "nothing" ELSE @,
                        !.failed_urls = r.failed_urls,
                        !.downloaded_urls = r.downloaded_urls,
                        !.files = IF wrote THEN @ \cup {url} ELSE @,
                        !.small = IF r.gets > 0 /\ response.kind = "image"
                                     /\ response.size < MinPayloadBytes
                                  THEN @ \cup {url} ELSE @,
                        !.call = [url |-> url,
                                  response |-> IF r.gets > 0 THEN response
                                               ELSE NoCall.response,
                                  was_small |-> url \in net.small,
                                  gets |-> r.gets,
                                  raised |-> r.raised,
                                  ok |-> wrote,
                                  wrote |-> wrote,
                                  gap_before |-> IF r.gets > 0 THEN net.gap
                                                 ELSE NoCall.gap_before]]
    /\ UNCHANGED <<runVars, reference_embedding, vb, dd, sv, cs, fd, bl>>

\* _random_delay(REQUEST_DELAY_MIN, REQUEST_DELAY_MAX) at the end of one
\* iteration of download_from_tmdb (line 208)
RandomDelay ==
    /\ net.client = "downloader" /\ net.phase = "delay"
    /\ net' = [net EXCEPT !.phase = "ready", !.gap = "random"]
    /\ UNCHANGED <<runVars, reference_embedding, vb, dd, sv, cs, fd, bl>>

FetchNext == MakeRequest \/ Attempt \/ DownloadAndSave \/ RandomDelay

SpecFetch == FetchInit /\ [][FetchNext]_vars

\* ------------------------------------------------------------------------
\* SpecCosine: cosine_similarity of two vectors, called in both orders
\* ------------------------------------------------------------------------
MaxDim == 2
MaxComponent == 1

\* the vectors of at most MaxDim components, the empty one included
Vectors == UNION {[1..n -> (-MaxComponent)..MaxComponent] : n \in 0..MaxDim}

\* a call of cosine_similarity: the float returned, or the ValueError of
\* np.dot
CosineCall(vec1, vec2) ==
    IF CosineRaises(vec1, vec2)
    THEN [raised |-> TRUE, value |-> ZeroScore]
    ELSE [raised |-> FALSE, value |-> cosine_similarity(vec1, vec2)]

CosineInit ==
    /\ runIdle
    /\ reference_embedding = None
    /\ vb = [phase |-> "idle"]
    /\ dd = [phase |-> "idle"]
    /\ net = [phase |-> "idle"]
    /\ sv = [phase |-> "idle"]
    /\ cs = [phase |-> "new"]
    /\ fd = [phase |-> "idle"]
    /\ bl = [phase |-> "idle"]

Cosine ==
    /\ cs.phase = "new"
    /\ \E a \in Vectors, b \in Vectors :
          cs' = [phase |-> "called", a |-> a, b |-> b,
                 ab |-> CosineCall(a, b), ba |-> CosineCall(b, a)]
    /\ UNCHANGED <<runVars, reference_embedding, vb, dd, net, sv, fd, bl>>

SpecCosine == CosineInit /\ [][Cosine]_vars

\* ------------------------------------------------------------------------
\* SpecFaces: one raw image through FaceDetector.validate_and_crop_faces and
\* the body of the loop of detect_and_validate_faces
\* ------------------------------------------------------------------------
MaxDetected == 3

\* detect_faces: of the faces the detector found, those _extract_face_data
\* gives data for; a face narrower or lower than MIN_FACE_SIZE ("small") or
\* of a confidence under FACE_DETECTION_THRESHOLD ("unsure") is dropped
detect_faces(found) == SelectSeq(found, LAMBDA f : f = "face")

TooManyNever(faces) == FALSE

TooMany(faces) == Len(faces) > MAX_FACES_PER_IMAGE

\* validate_and_crop_faces: the number of cropped images returned; cropped
\* holds the positions of faces whose _crop_face is not None
validate_and_crop_faces(readable, found, cropped) ==
    LET faces == detect_faces(found)
    IN IF ~ readable THEN 0
       ELSE IF Len(faces) = 0 THEN 0
       ELSE IF TooMany(faces) THEN 0
       ELSE Cardinality(cropped \cap (1..Len(faces)))

FacesInit ==
    /\ runIdle
    /\ reference_embedding = None
    /\ vb = [phase |-> "idle"]
    /\ dd = [phase |-> "idle"]
    /\ net = [phase |-> "idle"]
    /\ sv = [phase |-> "idle"]
    /\ cs = [phase |-> "idle"]
    /\ fd = [phase |-> "new"]
    /\ bl = [phase |-> "idle"]

\* one iteration of the loop of detect_and_validate_faces (main.py:223-236):
\* every cropped image whose save_face_image returns True is appended to
\* valid_faces; unsaved is the number of crops that could not be saved
CropFaces ==
    /\ fd.phase = "new"
    /\ \E readable \in BOOLEAN :
       \E found \in SeqsUpTo({"face", "small", "unsure"}, MaxDetected) :
       \E cropped \in SUBSET (1..Len(detect_faces(found))) :
          LET crops == validate_and_crop_faces(readable, found, cropped)
          IN \E unsaved \in 0..crops :
                fd' = [phase |-> "done",
                       readable |-> readable,
                       found |-> found,
                       faces |-> detect_faces(found),
                       cropped |-> cropped,
                       crops |-> crops,
                       appended |-> crops - unsaved]
    /\ UNCHANGED <<runVars, reference_embedding, vb, dd, net, sv, cs, bl>>

SpecFaces == FacesInit /\ [][CropFaces]_vars

\* ------------------------------------------------------------------------
\* SpecReuse: one ActorDatasetBuilder whose build_dataset is called for one
\* identity after another.  An entry of a checkpoint is named by the "actor"
\* it records; "none" is a missing entry.
\* ------------------------------------------------------------------------
MaxBuilds == 3

Identities == {"A", "B"}

NoEntries == [download |-> "none", face_detection |-> "none"]

\* __init__ (main.py:66-71): self.checkpoint = {}; no identity has a
\* checkpoint.json
ReuseInit ==
    /\ runIdle
    /\ reference_embedding = None
    /\ vb = [phase |-> "idle"]
    /\ dd = [phase |-> "idle"]
    /\ net = [phase |-> "idle"]
    /\ sv = [phase |-> "idle"]
    /\ cs = [phase |-> "idle"]
    /\ fd = [phase |-> "idle"]
    /\ bl = [phase |-> "returned", actor_name |-> "A", builds |-> 0,
             checkpoint |-> NoEntries,
             files |-> [a \in Identities |-> NoEntries]]

\* build_dataset(actor_name, resume) up to line 479: self.checkpoint is
\* replaced only when resuming; load_checkpoint returns {} when the identity
\* has no checkpoint.json
BuildCall ==
    /\ bl.phase = "returned"
    /\ bl.builds < MaxBuilds
    /\ \E actor_name \in Identities, resuming \in BOOLEAN :
          bl' = [bl EXCEPT
                   !.phase = "download",
                   !.actor_name = actor_name,
                   !.builds = @ + 1,
                   !.checkpoint = IF resuming THEN bl.files[actor_name]
                                  ELSE @]
    /\ UNCHANGED <<runVars, reference_embedding, vb, dd, net, sv, cs, fd>>

\* download_images lines 178-184
CheckpointDownload ==
    /\ bl.phase = "download"
    /\ LET ckpt == [bl.checkpoint EXCEPT !.download = bl.actor_name]
       IN bl' = [bl EXCEPT !.phase = "detect",
                           !.checkpoint = ckpt,
                           !.files[bl.actor_name] = ckpt]
    /\ UNCHANGED <<runVars, reference_embedding, vb, dd, net, sv, cs, fd>>

\* detect_and_validate_faces lines 243-250
CheckpointDetect ==
    /\ bl.phase = "detect"
    /\ LET ckpt == [bl.checkpoint EXCEPT !.face_detection = bl.actor_name]
       IN bl' = [bl EXCEPT !.checkpoint = ckpt,
                           !.files[bl.actor_name] = ckpt]
    /\ UNCHANGED <<runVars, reference_embedding, vb, dd, net, sv, cs, fd>>

\* build_dataset returns its report, from whatever stage
BuildReturn ==
    /\ bl.phase \in {"download", "detect"}
    /\ bl' = [bl EXCEPT !.phase = "returned"]
    /\ UNCHANGED <<runVars, reference_embedding, vb, dd, net, sv, cs, fd>>

ReuseNext ==
    BuildCall \/ CheckpointDownload \/ CheckpointDetect \/ BuildReturn

SpecReuse == ReuseInit /\ [][ReuseNext]_vars

\* ------------------------------------------------------------------------
\* SpecSave: save_final_dataset on its own, over a final directory that an
\* earlier run can have left files in
\* ------------------------------------------------------------------------
CopiedUntilError(image_paths, fails) ==
    {n \in 1..Len(image_paths) : \A j \in 1..n : j \notin fails}

\* the loop of save_final_dataset (lines 392-402): the positions of
\* image_paths whose copy succeeded, fails being the positions where
\* shutil.copy2 raises
CopiedFiles(image_paths, fails) ==
    {n \in 1..Len(image_paths) : n \notin fails}

\* lines 395-398: the numbered files of the final directory after the loop;
\* the file of position n is <n:05d>.jpg
FinalFiles(before, copied) == before \cup copied

\* no metadata.json
NoMetadata == -1

\* lines 404-422: total_images of metadata.json after the call; it is not
\* written when the call raised before save_metadata
MetadataAfter(before, count, raised) ==
    IF raised THEN before ELSE count

SaveInit ==
    /\ runIdle
    /\ reference_embedding = None
    /\ vb = [phase |-> "idle"]
    /\ dd = [phase |-> "idle"]
    /\ net = [phase |-> "idle"]
    /\ sv = [phase |-> "new"]
    /\ cs = [phase |-> "idle"]
    /\ fd = [phase |-> "idle"]
    /\ bl = [phase |-> "idle"]

\* save_final_dataset(actor_name, image_paths, similarity_scores) over a
\* final directory holding the files 1..left of an earlier run and its
\* metadata.json; raised: an exception after the loop and before the
\* metadata is written, caught at line 437
SaveCall ==
    /\ sv.phase = "new"
    /\ \E ps \in ImageLists, left \in 0..MaxImages, raised \in BOOLEAN :
       \E fails \in SUBSET (1..Len(ps)) :
          LET copied == CopiedFiles(ps, fails)
              count == save_final_dataset(ps, copied, raised)
              meta == IF left = 0 THEN NoMetadata ELSE left
          IN sv' = [phase |-> "saved",
                    image_paths |-> ps,
                    fails |-> fails,
                    left |-> left,
                    raised |-> raised,
                    final_dir |-> FinalFiles(1..left, copied),
                    saved_count |-> count,
                    total_images |-> MetadataAfter(meta, count, raised)]
    /\ UNCHANGED <<runVars, reference_embedding, vb, dd, net, cs, fd, bl>>

SaveNext == SaveCall

SpecSave == SaveInit /\ [][SaveNext]_vars

\* ------------------------------------------------------------------------
\* Properties
\* ------------------------------------------------------------------------
\* the order of the stages
StageIndex(s) ==
    CASE s = "identify" -> 1
      [] s = "download" -> 2
      [] s = "detect" -> 3
      [] s = "verify" -> 4
      [] s = "dedupe" -> 5
      [] OTHER -> 6

HasStarted(s) == s \in Range(started)
HasCompleted(s) == s \in Range(completed)

\* the status recorded in the report for a stage key, "absent" when none is
StageStatus(key) ==
    IF \E i \in 1..Len(report.stages) : report.stages[i].name = key
    THEN LET i == CHOOSE i \in 1..Len(report.stages) : report.stages[i].name = key
         IN report.stages[i].status
    ELSE "absent"

\* a is b with some elements left out, the others in b's order
IsSubsequenceOf(a, b) ==
    LET In(x) == x \in Range(a) IN NoRepeat(a) /\ a = SelectSeq(b, In)

\* C1: the stage methods are called in the order Identify, Download, Detect,
\* Verify, Dedupe, Save: each call comes later in that order than every call
\* before it (so none is called twice), and a stage is called only when every
\* stage called before it has returned.
C1_StageOrder ==
    /\ \A i, j \in 1..Len(started) :
          i < j => StageIndex(started[i]) < StageIndex(started[j])
    /\ Len(completed) <= Len(started)
    /\ Len(started) <= Len(completed) + 1
    /\ completed = SubSeq(started, 1, Len(completed))
    /\ pc = "call" => completed = started

C1_Witness ==
    /\ pc = "done"
    /\ started = <<"identify", "download", "detect", "verify", "dedupe", "save">>
    /\ completed = started

\* the state of a run whose Identify returned no profile, whose Download
\* returned 0 or whose Detect returned no face: over, with status "failed",
\* the failing stage the last one called
C2_FailedState ==
    /\ (HasCompleted("identify") /\ ~ actor_profile.some) =>
          /\ pc = "done" /\ report.status = "failed"
          /\ started = <<"identify">>
    /\ (HasCompleted("download") /\ downloaded = 0) =>
          /\ pc = "done" /\ report.status = "failed"
          /\ started = <<"identify", "download">>
    /\ (HasCompleted("detect") /\ detected_faces = <<>>) =>
          /\ pc = "done" /\ report.status = "failed"
          /\ started = <<"identify", "download", "detect">>

\* C2: when Identify returns no profile, Download returns 0 or Detect
\* returns no face, the run is over with status "failed" and no later stage
\* has been called; and a run that is over with status "failed" takes no
\* further step.
C2_FailedRun ==
    /\ [] C2_FailedState
    /\ [][(pc = "done" /\ report.status = "failed") => UNCHANGED vars]_vars

C2_Witness ==
    /\ pc = "done"
    /\ completed = <<"identify", "download">>
    /\ downloaded = 0
    /\ report.status = "failed"

\* C3: once Save has returned, the final status is "success" exactly when
\* saved_count >= target_images, "partial" exactly when
\* 0 < saved_count < target_images, and "failed" in every other case.
C3_FinalOutcome ==
    HasCompleted("save") =>
       /\ pc = "done"
       /\ report.status = "success" <=> saved_count >= target_images
       /\ report.status = "partial" <=>
             (0 < saved_count /\ saved_count < target_images)
       /\ report.status = "failed" <=>
             (~ (saved_count >= target_images) /\
              ~ (0 < saved_count /\ saved_count < target_images))

C3_Witness ==
    /\ HasCompleted("save")
    /\ saved_count = 2 /\ target_images = 2
    /\ report.status = "success"

\* the place of x in the list s
Pos(s, x) == CHOOSE i \in 1..Len(s) : s[i] = x

\* the calls of remove_duplicates made so far, each with its input list
DedupCalls ==
    CASE dd.phase = "first" ->
            {[image_paths |-> dd.image_paths, out |-> dd.first]}
      [] dd.phase = "second" ->
            {[image_paths |-> dd.image_paths, out |-> dd.first],
             [image_paths |-> dd.first.unique_images, out |-> dd.second]}
      [] OTHER -> {}

\* C4: remove_duplicates on the unique list a first remove_duplicates
\* returned gives that same list back and removes nothing.
C4_Idempotent ==
    dd.phase = "second" =>
       /\ dd.second.unique_images = dd.first.unique_images
       /\ dd.second.removed_images = <<>>

\* C5: every duplicate group has at least 2 members, the image kept for it is
\* one of them, and the removed images together with the unique images are
\* the input images, as a set.
C5_GroupsAndPartition ==
    \A c \in DedupCalls :
       /\ Len(c.out.kept) = Len(c.out.duplicate_groups)
       /\ \A g \in 1..Len(c.out.duplicate_groups) :
             /\ Len(c.out.duplicate_groups[g]) >= 2
             /\ c.out.kept[g] \in Range(c.out.duplicate_groups[g])
       /\ Range(c.out.removed_images) \cup Range(c.out.unique_images)
             = Range(c.image_paths)

C5_Witness ==
    /\ dd.phase = "first"
    /\ Len(dd.image_paths) = 3
    /\ Len(dd.first.duplicate_groups) = 1
    /\ Len(dd.first.duplicate_groups[1]) = 2
    /\ \E p \in Range(dd.image_paths) : dd.hashOf[p] = NoHash

\* C6: of every duplicate group exactly one member stays in the unique
\* images and every other member is removed; the member that stays has the
\* largest file size of the group, and is the first in input order of the
\* members of that size. In the scenario of five images where 2 and 4 are
\* duplicates and 4 is larger, 1, 3, 4, 5 stay and 2 is removed.
C6_KeepsLargestFirst ==
    /\ \A c \in DedupCalls :
          \A g \in 1..Len(c.out.duplicate_groups) :
             LET group == c.out.duplicate_groups[g]
                 keep == c.out.kept[g]
             IN /\ keep \in Range(c.out.unique_images)
                /\ \A m \in Range(group) \ {keep} :
                      /\ m \notin Range(c.out.unique_images)
                      /\ m \in Range(c.out.removed_images)
                /\ \A m \in Range(group) :
                      /\ dd.sizeOf[keep] >= dd.sizeOf[m]
                      /\ dd.sizeOf[m] = dd.sizeOf[keep] =>
                            Pos(c.image_paths, keep) <= Pos(c.image_paths, m)
    /\ (/\ dd.phase = "first"
        /\ dd.threshold = DUPLICATE_THRESHOLD
        /\ dd.image_paths = <<1, 2, 3, 4, 5>>
        /\ dd.hashOf = ScenarioHash
        /\ dd.sizeOf = ScenarioSize) =>
          /\ dd.first.unique_images = <<1, 3, 4, 5>>
          /\ dd.first.removed_images = <<2>>

C6_Witness ==
    /\ dd.phase = "first"
    /\ dd.threshold = DUPLICATE_THRESHOLD
    /\ dd.image_paths = <<1, 2, 3, 4, 5>>
    /\ dd.hashOf = ScenarioHash
    /\ dd.sizeOf = ScenarioSize
    /\ dd.first.duplicate_groups = <<(<<2, 4>>)>>
    /\ dd.first.kept = <<4>>

\* a candidate whose embedding is extracted and compared without an error
Scorable(ref, kind) ==
    /\ get_embedding_from_file(kind) # None
    /\ ~ CosineRaises(Vec(ref), Vec(get_embedding_from_file(kind)))

\* the score of a candidate: its cosine similarity to the reference, 0.0
\* when it has no embedding or the comparison fails
ScoreOf(ref, kind) ==
    IF Scorable(ref, kind)
    THEN cosine_similarity(Vec(ref), Vec(get_embedding_from_file(kind)))
    ELSE ZeroScore

\* t1 <= t2 for thresholds p/q
ThresholdLeq(t1, t2) == t1[1] * t2[2] <= t2[1] * t1[2]

\* the batch has been verified against a reference that is set
BatchScored == vb.phase = "done" /\ reference_embedding # None

\* C7 as stated: against a set reference, a candidate is accepted exactly
\* when its score is at least the threshold, a candidate without an
\* embedding counting with score 0.0.
C7_AcceptedIffScore ==
    BatchScored =>
       \A p \in Range(vb.image_paths) :
          p \in Range(vb.valid_images)
             <=> ScoreGeq(ScoreOf(reference_embedding, vb.kindOf[p]),
                          Effective(vb.threshold))

\* C7, amended: against a set reference, a candidate whose embedding is
\* extracted and compared without error is accepted exactly when its cosine
\* similarity is at least the threshold; any other candidate is rejected
\* with score 0.0 at every threshold; and a larger threshold never accepts
\* more candidates of the same batch.
C7_AcceptRule ==
    BatchScored =>
       /\ \A p \in Range(vb.image_paths) :
             IF Scorable(reference_embedding, vb.kindOf[p])
             THEN p \in Range(vb.valid_images)
                     <=> ScoreGeq(cosine_similarity(Vec(reference_embedding),
                                                    Vec(vb.kindOf[p])),
                                  Effective(vb.threshold))
             ELSE /\ p \notin Range(vb.valid_images)
                  /\ vb.return_scores => vb.scores[p] = ZeroScore
       /\ \A t \in Thresholds :
             ThresholdLeq(Effective(vb.threshold), Effective(t)) =>
                Len(verify_batch(reference_embedding, vb.image_paths,
                                 vb.kindOf, t, vb.return_scores).valid_images)
                   <= Len(vb.valid_images)

C7_Witness ==
    /\ BatchScored
    /\ vb.threshold = <<0, 1>>
    /\ vb.return_scores
    /\ \E p \in Range(vb.image_paths) : vb.kindOf[p] = "noface"
    /\ \E p \in Range(vb.image_paths) : vb.kindOf[p] = "e010"
    /\ Len(vb.valid_images) = 1

\* the scenario: threshold 0.42 and similarities 0.1, 0.5, 0.42, 0.9
InScenario ==
    /\ BatchScored
    /\ reference_embedding = "ref"
    /\ Effective(vb.threshold) = FACE_SIMILARITY_THRESHOLD
    /\ vb.image_paths = <<1, 2, 3, 4>>
    /\ vb.kindOf = ScenarioKinds

\* C8 as stated: verify_batch returns the accepted candidates as a
\* subsequence of the input and a score for every candidate.
C8_SubsequenceAndAllScores ==
    vb.phase = "done" =>
       /\ IsSubsequenceOf(vb.valid_images, vb.image_paths)
       /\ DOMAIN vb.scores = Range(vb.image_paths)
       /\ InScenario => vb.valid_images = <<2, 3, 4>>

\* C8, amended: the accepted candidates are a subsequence of the input in
\* input order; when a reference is set and return_scores is true there is
\* one score for every candidate, and otherwise there is no score at all;
\* with no reference set nothing is accepted. The scenario accepts the 2nd,
\* 3rd and 4th candidate, in that order.
C8_BatchContract ==
    vb.phase = "done" =>
       /\ IsSubsequenceOf(vb.valid_images, vb.image_paths)
       /\ (reference_embedding # None /\ vb.return_scores) =>
             /\ DOMAIN vb.scores = Range(vb.image_paths)
             /\ \A p \in Range(vb.image_paths) :
                   vb.scores[p] = ScoreOf(reference_embedding, vb.kindOf[p])
       /\ (reference_embedding = None \/ ~ vb.return_scores) =>
             vb.scores = <<>>
       /\ reference_embedding = None => vb.valid_images = <<>>
       /\ InScenario => vb.valid_images = <<2, 3, 4>>

C8_Witness ==
    /\ InScenario
    /\ vb.return_scores
    /\ vb.valid_images = <<2, 3, 4>>
    /\ DOMAIN vb.scores = {1, 2, 3, 4}

\* C9: with verify_actor false no candidate is ever scored and
\* verify_actor_faces is never called; once build_dataset is past Stage 4
\* the report records verification as "skipped" and the verified faces are
\* the detected faces, and the list Dedupe is called with is the list
\* Detect returned, element for element.
C9_VerificationBypassed ==
    ~ verify_actor =>
       /\ scored = {}
       /\ ~ HasStarted("verify")
       /\ StageStatus("verification") \in {"absent", "skipped"}
       /\ (HasCompleted("detect") /\ detected_faces # <<>>
              /\ ~ (pc = "call" /\ stage = "verify")) =>
             /\ StageStatus("verification") = "skipped"
             /\ verified_faces = detected_faces
             /\ similarity_scores = <<>>
       /\ HasStarted("dedupe") =>
             /\ dedupe_input = detected_faces
             /\ dedupe_input # <<>>

C9_Witness ==
    /\ ~ verify_actor
    /\ HasCompleted("dedupe")
    /\ Len(detected_faces) = 2
    /\ dedupe_input = detected_faces
    /\ StageStatus("verification") = "skipped"

\* C10: when verify_actor_faces has returned no face, the run is over with
\* status "partial", and neither Dedupe nor Save has been called.
C10_NoneVerifiedIsPartial ==
    (verify_actor /\ HasCompleted("verify") /\ verified_faces = <<>>) =>
       /\ pc = "done"
       /\ report.status = "partial"
       /\ ~ HasStarted("dedupe")
       /\ ~ HasStarted("save")

C10_Witness ==
    /\ verify_actor
    /\ HasCompleted("verify")
    /\ reference_embedding = "ref"
    /\ Len(detected_faces) = 2
    /\ verified_faces = <<>>
    /\ report.status = "partial"

\* the events of ref_trace named e
Count(e) == Cardinality({i \in 1..Len(ref_trace) : ref_trace[i] = e})

\* verify_actor_faces has returned and left no reference embedding
NoReference ==
    verify_actor /\ HasCompleted("verify") /\ reference_embedding = None

\* C11: when no reference embedding could be extracted, the report records
\* verification as "skipped", not "success", and the candidates are not all
\* accepted.
C11_NoReferenceIsSkipped ==
    NoReference =>
       /\ StageStatus("verification") = "skipped"
       /\ verified_faces # detected_faces

\* C12: with verification enabled and a profile image in the profile, the
\* extraction of the reference embedding is attempted; no candidate is
\* scored before the attempt; and at most one reference embedding is set.
C12_OneReferenceExtractedFirst ==
    verify_actor =>
       /\ (HasCompleted("verify") /\ actor_profile.profile_image) =>
             Count("attempt") = 1
       /\ \A i \in 1..Len(ref_trace) :
             ref_trace[i] = "score" =>
                \E j \in 1..(i - 1) : ref_trace[j] = "attempt"
       /\ Count("set") <= 1

\* C13: a run started with resume fetches no image whose file is already in
\* the raw directory; and the images Save numbers are all different, each
\* numbered at most once.
C13_ResumeFetchesOnlyMissing ==
    resume =>
       /\ refetched = {}
       /\ HasCompleted("save") =>
             /\ NoRepeat(unique_faces)
             /\ saved_count <= Len(unique_faces)

\* C14: a run started with resume loads the stored checkpoint and goes on to
\* the stages; Detect works on the raw image files that are on disk,
\* whatever the counters of the checkpoint say, so every file on disk is
\* processed again.
C14_ResumeLoadsAndRescans ==
    resume =>
       /\ pc # "start" => report.status # "error"
       /\ (pc = "call" /\ stage = "identify" /\ checkpoint_file.exists) =>
             checkpoint = checkpoint_file.content
       /\ pc = "loop" =>
             /\ raw_images = SortedPaths(raw_dir)
             /\ idx <= Len(raw_images)

\* a checkpoint recording stage s has been written
CheckpointedStage(s) == s \in ckpt_log

\* C15: for every stage that has returned, once a later stage has been
\* called or the run is over, a checkpoint recording that stage has been
\* written.
C15_CheckpointAfterEveryStage ==
    \A s \in Range(completed) :
       (pc = "done" \/ \E l \in Range(started) : StageIndex(l) > StageIndex(s))
          => CheckpointedStage(s)

\* C16: in the loop of Detect, a checkpoint has been written at every image
\* index processed so far that is a multiple of the interval, whatever
\* happened to that image.
C16_CheckpointEveryInterval ==
    pc = "loop" =>
       \A i \in 1..idx :
          i % checkpoint_interval = 0 => i \in ckpt_at

\* the outbound call in progress or last made is a metadata lookup
IsLookup == net.client = "tmdb"

\* a download_and_save call has been made
IsDownload == net.client = "downloader" /\ net.call.url \in Urls

\* C17: after an auth or not-found response no further attempt of the call
\* follows: a metadata lookup that got one is over, and when it was the
\* answer to its first attempt the call made exactly one attempt; an image
\* download that got one made exactly one request.
C17_NoRetryOnAuthOrNotFound ==
    /\ IsLookup =>
          /\ net.last \in NonTransient => net.phase = "ready"
          /\ net.first \in NonTransient => net.attempt_number = 1
    /\ (IsDownload /\ net.call.response.kind \in NonTransient) =>
          net.call.gets = 1

\* C18: a call whose attempt failed in the transport is attempted again
\* until it succeeds or MAX_RETRIES attempts are made, and a call whose last
\* attempt succeeded is reported as a success.
C18_TransientIsRetried ==
    /\ (IsLookup /\ net.phase = "ready" /\ net.last = "transport") =>
          net.attempt_number = MAX_RETRIES
    /\ (IsLookup /\ net.phase = "ready" /\ net.last = "data") =>
          net.result = "data"
    /\ (IsDownload /\ net.call.response.kind = "transport") =>
          net.call.ok \/ net.call.gets = MAX_RETRIES

\* C19: no outbound call makes more than MAX_RETRIES network attempts, and a
\* call whose MAX_RETRIES-th attempt failed is over, with a failure as its
\* outcome.
C19_AttemptsBounded ==
    /\ IsLookup =>
          /\ net.attempt_number <= MAX_RETRIES
          /\ (net.attempt_number = MAX_RETRIES /\ net.last # "data") =>
                /\ net.phase = "ready"
                /\ net.result \in {"RetryError", "ValueError"}
    /\ IsDownload =>
          /\ net.call.gets <= MAX_RETRIES
          /\ ~ net.call.raised
          /\ (net.call.gets > 0 /\ ~ (net.call.response.kind = "image"
                 /\ net.call.response.size >= MinPayloadBytes)) =>
                ~ net.call.ok

\* a metadata lookup made MAX_RETRIES attempts, all failed, and ended with
\* RetryError
C19_Witness ==
    /\ IsLookup /\ net.phase = "ready"
    /\ net.attempt_number = MAX_RETRIES
    /\ net.last = "transport"
    /\ net.result = "RetryError"

\* C20: a payload under the minimum size makes the download fail with no
\* file written by the call; every url that ever had such a payload is in
\* failed_urls; and a later call for such a url fails without a network
\* request.
C20_SmallPayloadMemoised ==
    IsDownload =>
       /\ (net.call.gets > 0 /\ net.call.response.kind = "image"
             /\ net.call.response.size < MinPayloadBytes) =>
             ~ net.call.ok /\ ~ net.call.wrote
       /\ net.small \subseteq net.failed_urls
       /\ net.call.was_small =>
             /\ net.call.gets = 0
             /\ ~ net.call.ok /\ ~ net.call.wrote

\* a url that had a payload under the minimum is asked for again, and no
\* request is made
C20_Witness ==
    /\ IsDownload
    /\ net.call.was_small
    /\ net.call.gets = 0
    /\ net.call.url \in net.small

\* C21: every network call but the first one of a client comes after a
\* randomized delay that followed the call before it, for the metadata
\* lookups and for the image downloads alike.
C21_DelayBetweenCalls ==
    /\ IsLookup => net.gap_before \in {"first", "random"}
    /\ IsDownload => net.call.gap_before \in {"first", "random"}

\* C22: when the run is over, every stage that was executed has a status in
\* the report; and when the run failed at Identify, Download or Detect, the
\* report has status "failed", lists that stage with status "failed", lists
\* no later stage, and no later stage was called.
C22_FailedStageSurfaced ==
    pc = "done" =>
       /\ \A s \in Range(started) : StageStatus(StageKey(s)) # "absent"
       /\ (report.status = "failed"
             /\ stage \in {"identify", "download", "detect"}) =>
             /\ StageStatus(StageKey(stage)) = "failed"
             /\ \A l \in Stages :
                   StageIndex(l) > StageIndex(stage) =>
                      /\ StageStatus(StageKey(l)) = "absent"
                      /\ ~ HasStarted(l)

\* C23: the report of a finished run has a status and a per-stage breakdown,
\* and when its status is "failed" or "error" it has a reason in its error
\* field.
C23_FailureHasReason ==
    pc = "done" =>
       /\ report.status \in {"success", "partial", "failed", "error"}
       /\ Len(report.stages) <= Cardinality(Stages)
       /\ report.status \in {"failed", "error"} => report.error # "absent"

\* C24: the exit code of the process is 0 exactly when the report says
\* "success", 1 exactly when it says "partial", 3 exactly when the user
\* interrupted the run, and 2 when the report says "failed" or "error" or
\* when a fatal or configuration error ended the process.
C24_ExitCodes ==
    pc = "exited" =>
       /\ cli.exit_code = 0 <=>
             (cli.how = "report" /\ report.status = "success")
       /\ cli.exit_code = 1 <=>
             (cli.how = "report" /\ report.status = "partial")
       /\ cli.exit_code = 3 <=> cli.how = "interrupt"
       /\ (cli.how \in {"config", "fatal"}
             \/ (cli.how = "report"
                   /\ report.status \in {"failed", "error"})) =>
             cli.exit_code = 2

\* C25: when download_images returns, the run fails there if and only if
\* the stage fetched no image from any source; otherwise the run goes on to
\* Detect.
C25_FailsIffNothingFetched ==
    [][(pc = "save_ckpt" /\ pc' # "save_ckpt") =>
          /\ (pc' = "done" /\ report'.status = "failed") <=> got = {}
          /\ (pc' = "call" /\ stage' = "detect") <=> got # {}]_vars

C28_NumberedWithoutGap ==
    sv.phase = "saved" =>
       /\ sv.total_images # NoMetadata
       /\ sv.final_dir = 1..sv.total_images

\* C29 as stated: for all vectors a and b, cosine_similarity(a, b) returns
\* a value, the same as cosine_similarity(b, a), that lies in [0, 1], is 0
\* for a negative raw cosine, and is 0.0 when a or b has zero norm or is
\* empty.
C29_SymmetricBoundedZero ==
    cs.phase = "called" =>
       /\ ~ cs.ab.raised
       /\ cs.ab = cs.ba
       /\ cs.ab.value[1] >= 0 /\ cs.ab.value[1] <= cs.ab.value[2]
       /\ (Len(cs.a) = Len(cs.b) /\ Dot(cs.a, cs.b) < 0) =>
             cs.ab.value = ZeroScore
       /\ (Len(cs.a) = 0 \/ Len(cs.b) = 0 \/ Norm2(cs.a) = 0
           \/ Norm2(cs.b) = 0) => cs.ab.value = ZeroScore

\* C29, amended: cosine_similarity(a, b) raises exactly when a and b have
\* different lengths and neither is empty or of zero norm, and then
\* cosine_similarity(b, a) raises too; in every other case both calls return
\* the same value, which lies in [0, 1], is 0 for a negative raw cosine, and
\* is 0.0 when a or b has zero norm or is empty.
C29_SymmetricBoundedZeroOrRaises ==
    cs.phase = "called" =>
       /\ cs.ab.raised <=>
             /\ Len(cs.a) # Len(cs.b)
             /\ Len(cs.a) # 0 /\ Len(cs.b) # 0
             /\ Norm2(cs.a) # 0 /\ Norm2(cs.b) # 0
       /\ cs.ab = cs.ba
       /\ ~ cs.ab.raised =>
             /\ cs.ab.value[1] >= 0 /\ cs.ab.value[1] <= cs.ab.value[2]
             /\ (Len(cs.a) = Len(cs.b) /\ Dot(cs.a, cs.b) < 0) =>
                   cs.ab.value = ZeroScore
             /\ (Len(cs.a) = 0 \/ Len(cs.b) = 0 \/ Norm2(cs.a) = 0
                 \/ Norm2(cs.b) = 0) => cs.ab.value = ZeroScore

\* two vectors of the same length with a negative raw cosine: 0 both ways
C29_Witness ==
    /\ cs.phase = "called"
    /\ Len(cs.a) = MaxDim /\ Len(cs.b) = MaxDim
    /\ cs.a # cs.b
    /\ Norm2(cs.a) # 0 /\ Norm2(cs.b) # 0
    /\ Dot(cs.a, cs.b) < 0
    /\ ~ cs.ab.raised /\ ~ cs.ba.raised
    /\ cs.ab.value = ZeroScore /\ cs.ba.value = ZeroScore

\* C30: find_duplicates groups greedily in input order.  No image is in two
\* groups; the groups come in the order of their first members; the members
\* of a group are in input order; the first member is in no earlier group;
\* every other member comes later than the first, is in no earlier group and
\* is at least duplicate_threshold similar to the first; and every later
\* image with a hash that is in no earlier group and that similar to the
\* first is in the group.  An image with a hash that is in no group has no
\* such later image.
C30_GreedyInInputOrder ==
    \A c \in DedupCalls :
       LET groups == c.out.duplicate_groups
           list == c.image_paths
           Hashed(x) == dd.hashOf[x] # NoHash
           Similar(a, b) ==
               LET s == hash_similarity(dd.hashOf[a], dd.hashOf[b])
                   t == dd.threshold
               IN s[1] * t[2] >= t[1] * s[2]
           Before(k) == UNION {Range(groups[j]) : j \in 1..(k - 1)}
           OpenedBefore(x) ==
               UNION {Range(groups[j]) :
                         j \in {k \in 1..Len(groups) :
                                   Pos(list, groups[k][1]) < Pos(list, x)}}
           Grouped == UNION {Range(groups[j]) : j \in 1..Len(groups)}
       IN /\ \A k \in 1..Len(groups) :
                LET group == groups[k]
                    a == group[1]
                IN /\ a \in Range(list) /\ Hashed(a)
                   /\ a \notin Before(k)
                   /\ \A j \in 1..(k - 1) :
                         Pos(list, groups[j][1]) < Pos(list, a)
                   /\ \A m \in 2..Len(group) :
                         /\ group[m] \in Range(list) /\ Hashed(group[m])
                         /\ Pos(list, group[m]) > Pos(list, group[m - 1])
                         /\ group[m] \notin Before(k)
                         /\ Similar(a, group[m])
                   /\ \A x \in Range(list) :
                         (/\ Pos(list, x) > Pos(list, a)
                          /\ Hashed(x)
                          /\ x \notin Before(k)
                          /\ Similar(a, x)) => x \in Range(group)
          /\ \A x \in Range(list) \ Grouped :
                Hashed(x) =>
                   \A y \in Range(list) :
                      (/\ Pos(list, y) > Pos(list, x)
                       /\ Hashed(y)
                       /\ y \notin OpenedBefore(x)) => ~ Similar(x, y)

\* the chain of three images: 1 and 2 form the group, and 3, which is
\* similar to 2 but not to 1, is in no group
C30_Witness ==
    /\ dd.phase = "first"
    /\ dd.image_paths = <<1, 2, 3>>
    /\ dd.hashOf = ChainHash
    /\ dd.threshold = DUPLICATE_THRESHOLD
    /\ dd.first.duplicate_groups = << <<1, 2>> >>
    /\ FracGeq(hash_similarity(dd.hashOf[2], dd.hashOf[3]), dd.threshold)
    /\ ~ FracGeq(hash_similarity(dd.hashOf[1], dd.hashOf[3]), dd.threshold)

\* C31: for two fingerprints of the same length, hash_similarity is 1 minus
\* the number of differing bits divided by the bit length of the fingerprint
\* (4 bits a hex digit), clamped to [0, 1].
C31_SimilarityCountsBits ==
    dd.phase \in {"first", "second"} =>
       \A p, q \in Range(dd.image_paths) :
          LET hash1 == dd.hashOf[p]
              hash2 == dd.hashOf[q]
              Bit(n, k) == (n \div (2 ^ k)) % 2
              bits == Cardinality({d \in 1..(4 * Len(hash1)) :
                                      Bit(hash1[(d + 3) \div 4], d % 4)
                                         # Bit(hash2[(d + 3) \div 4], d % 4)})
              length == 4 * Len(hash1)
          IN (hash1 # NoHash /\ Len(hash1) = Len(hash2)) =>
                hash_similarity(hash1, hash2)
                   = Reduce(<<length - bits, length>>)

C33_NoNearPairInUnique ==
    \A c \in DedupCalls :
       \A p, q \in Range(c.out.unique_images) :
          (p # q /\ dd.hashOf[p] # NoHash /\ dd.hashOf[q] # NoHash) =>
             LET s == hash_similarity(dd.hashOf[p], dd.hashOf[q])
                 t == dd.threshold
             IN s[1] * t[2] < t[1] * s[2]

\* C34: the checkpoint file of an identity holds only entries recorded
\* while that identity was processed.
C34_CheckpointOfOneIdentity ==
    bl.phase # "idle" =>
       \A a \in Identities :
          /\ bl.files[a].download \in {"none", a}
          /\ bl.files[a].face_detection \in {"none", a}

\* C35: the count download_images returns is the number of raw image files
\* the stage wrote into the raw directory of the identity (a file of the
\* search download, marked 0, is written elsewhere), and a count is in the
\* checkpoint only as this number.
C35_CountIsFilesWritten ==
    [][(pc = "save_ckpt" /\ pc' # "save_ckpt") =>
          /\ downloaded' = Cardinality(got \ {0})
          /\ checkpoint'.download = <<Cardinality(got \ {0})>>]_vars

\* C36: at every point of a run the stages recorded in the report are the
\* first ones of identification, download, face_detection, verification,
\* deduplication, save, in this order; and a report of status "success" has
\* all six and a saved count of at least the target.
C36_StagesArePrefix ==
    LET keys == <<"identification", "download", "face_detection",
                  "verification", "deduplication", "save">>
    IN /\ Len(report.stages) <= Len(keys)
       /\ \A i \in 1..Len(report.stages) : report.stages[i].name = keys[i]
       /\ report.status = "success" =>
             /\ Len(report.stages) = Len(keys)
             /\ saved_count >= target_images

\* a run without verification that saved as many images as asked for
C36_Witness ==
    /\ pc = "done"
    /\ report.status = "success"
    /\ target_images > 0
    /\ saved_count >= target_images
    /\ Len(report.stages) = 6
    /\ report.stages[4] = [name |-> "verification", status |-> "skipped"]
    /\ report.stages[6].name = "save"

\* C37: every run of build_dataset comes to its return with a report of
\* status success, partial, failed or error, and after that no stage is
\* called and the report does not change.
C37_RunTerminates ==
    /\ <>(pc = "done"
          /\ report.status \in {"success", "partial", "failed", "error"})
    /\ [][pc = "done" => UNCHANGED <<pc, stage, started, completed, report>>]_vars

\* an exception inside the run was caught: the run has returned its report
\* with status "error"
C37_Witness ==
    /\ pc = "done"
    /\ report.status = "error"
    /\ report.error = "exception"

\* C38: an image without a fingerprint is in no duplicate group, is not
\* removed and is in the unique images remove_duplicates returns; and no
\* image is both in the unique and in the removed images.
C38_UnhashedStaysUnique ==
    \A c \in DedupCalls :
       /\ \A p \in Range(c.image_paths) :
             dd.hashOf[p] = NoHash =>
                /\ \A g \in 1..Len(c.out.duplicate_groups) :
                      p \notin Range(c.out.duplicate_groups[g])
                /\ p \notin Range(c.out.removed_images)
                /\ p \in Range(c.out.unique_images)
       /\ Range(c.out.unique_images) \cap Range(c.out.removed_images) = {}

\* the first of three images has no fingerprint and the other two are
\* duplicates: one of them is removed and the first one stays
C38_Witness ==
    /\ dd.phase = "first"
    /\ Len(dd.image_paths) = 3
    /\ dd.hashOf[dd.image_paths[1]] = NoHash
    /\ Len(dd.first.removed_images) = 1
    /\ dd.image_paths[1] \in Range(dd.first.unique_images)
    /\ Len(dd.first.unique_images) = 2

====
